---- MODULE Spec2Model ----
(***************************************************************************)
(* Verification model of podcastfy's transcript cleaning, long-form        *)
(* generation, synthesis chunking and audio assembly.                      *)
(*                                                                         *)
(* Text is a sequence of lexical tokens.  A token is a string: a whole tag *)
(* ("<Person1>", "</Person1>", "<b>" ...), a single punctuation character  *)
(* ("<", ">", "*", "_", "[", "]"), a whitespace character (" ", "\n"), a   *)
(* code fence of three backquotes ("FENCE") or a word ("a", "xml" ...). The *)
(* regular expressions of the source are evaluated on these sequences with *)
(* Python's re semantics: leftmost match, alternatives in order, greedy    *)
(* and lazy quantifiers, backtracking, non-overlapping substitution in one *)
(* pass over the original string.                                          *)
(***************************************************************************)
EXTENDS Integers, Sequences, FiniteSets, TLC

VARIABLES
    cm_input,      \* clean_markup: the text first handed to clean_markup
    cm_prev,       \* clean_markup: the argument of the last call
    cm_text,       \* clean_markup: the value returned by the last call
    cm_calls       \* clean_markup: number of calls applied to cm_input so far

cm_vars == <<cm_input, cm_prev, cm_text, cm_calls>>

VARIABLES
    ct_text,       \* chunk_text: the argument text
    ct_max_bytes,  \* chunk_text: the argument max_bytes
    ct_sections,   \* chunk_text: sections, once split and stripped
    ct_idx,        \* chunk_text: position of the for loop in sections
    ct_current,    \* chunk_text: current_chunk
    ct_chunks,     \* chunk_text: chunks
    ct_pc          \* chunk_text: "idle", "start", "loop" or "done"

ct_vars ==
    <<ct_text, ct_max_bytes, ct_sections, ct_idx, ct_current, ct_chunks, ct_pc>>

VARIABLES
    ma_audio_chunks,  \* merge_audio: the argument audio_chunks
    ma_idx,           \* merge_audio: position of the for loop (enumerate)
    ma_valid_chunks,  \* merge_audio: valid_chunks, the decoded segments
    ma_export_failed, \* merge_audio: whether the merge/export step raised
    ma_result,        \* merge_audio: what the call returned or raised
    ma_pc             \* merge_audio: "idle", "start", "loop" or "done"

ma_vars ==
    <<ma_audio_chunks, ma_idx, ma_valid_chunks, ma_export_failed, ma_result,
      ma_pc>>

VARIABLES
    sy_provider,   \* convert_to_speech: "geminimulti" or "novelai"
    sy_outcome,    \* what the synthesis service does for each chunk
    sy_idx,        \* position of the loop under way
    sy_called,     \* chunks for which the synthesis service was called
    sy_audio,      \* generate_audio: audio_chunks / audio_parts
    sy_combined,   \* convert_to_speech: combined, the segments added so far
    sy_error,      \* the exception that reached the caller, "" when none
    sy_track,      \* the audio written to output_file
    sy_pc          \* "idle", "generate", "process", "write", "raised", "written"

sy_vars ==
    <<sy_provider, sy_outcome, sy_idx, sy_called, sy_audio, sy_combined,
      sy_error, sy_track, sy_pc>>

VARIABLES
    lf_chunks,        \* generate_long_form: chunks
    lf_i,             \* generate_long_form: i, the chunk under way
    lf_chat_context,  \* generate_long_form: chat_context
    lf_parts,         \* generate_long_form: conversation_parts
    lf_instructions,  \* the instruction built for each chunk so far
    lf_final,         \* generate_long_form: final_conversation
    lf_calls,         \* the generation calls made so far, in order
    lf_save,          \* generate_qa_content: whether output_filepath is given
    lf_response,      \* generate_qa_content: the value returned
    lf_file,          \* what was written to output_filepath, one entry a write
    lf_error,         \* the exception that reached the caller, "" when none
    lf_prompt_params, \* generate_long_form: the caller's prompt_params
    lf_enhanced,      \* generate_long_form: enhanced_params of the last chunk
    lf_pc             \* "idle", "loop", "done", "returned" or "raised"

lf_vars ==
    <<lf_chunks, lf_i, lf_chat_context, lf_parts, lf_instructions, lf_final,
      lf_calls, lf_save, lf_response, lf_file, lf_error, lf_prompt_params,
      lf_enhanced, lf_pc>>

VARIABLES
    cc_input,       \* chunk_content: input_content
    cc_min,         \* min_chunk_size of the configuration
    cc_max,         \* max_num_chunks of the configuration
    cc_chunk_size,  \* the size returned by __calculate_chunk_size
    cc_sentences,   \* chunk_content: sentences
    cc_idx,         \* chunk_content: position of the for loop in sentences
    cc_current,     \* chunk_content: current_chunk
    cc_length,      \* chunk_content: current_length
    cc_chunks,      \* chunk_content: chunks
    cc_pc           \* "idle", "size", "split", "loop" or "done"

cc_vars ==
    <<cc_input, cc_min, cc_max, cc_chunk_size, cc_sentences, cc_idx,
      cc_current, cc_length, cc_chunks, cc_pc>>

VARIABLES
    tx_provider,  \* "openai", "gemini" or "novelai"
    tx_turns,     \* the turns the transcript was written from, in order
    tx_text,      \* generate_audio: the argument text
    tx_p1,        \* person1_matches (openai, gemini), parts (novelai)
    tx_p2,        \* person2_matches
    tx_a1,        \* person1_audio (openai, gemini), audio_parts (novelai)
    tx_a2,        \* person2_audio
    tx_track,     \* the segments of the audio returned, in order
    tx_pc         \* "idle", "start", "synth", "done" or "raised"

tx_vars ==
    <<tx_provider, tx_turns, tx_text, tx_p1, tx_p2, tx_a1, tx_a2, tx_track,
      tx_pc>>

VARIABLES
    st_text,       \* split_turn_text: the argument text, one character a token
    st_max_chars,  \* split_turn_text: max_chars
    st_sentences,  \* sentences, after the empty pieces are dropped
    st_i,          \* index of the sentence under way, counted from 1
    st_current,    \* current_chunk
    st_chunks,     \* chunks
    st_pc          \* "idle", "start", "loop" or "done"

st_vars ==
    <<st_text, st_max_chars, st_sentences, st_i, st_current, st_chunks, st_pc>>

VARIABLES
    mo_format_type,  \* TextToSpeech.format_type
    mo_text,         \* convert_to_speech: the transcript
    mo_voice2,       \* the voice2 argument of generate_audio, "None" when None
    mo_pairs,        \* generate_audio: pairs of the chunk
    mo_j,            \* index of the pair under way, counted from 1
    mo_turns,        \* multi_speaker_markup.turns
    mo_pc            \* "idle", "start", "pairs" or "done"

mo_vars ==
    <<mo_format_type, mo_text, mo_voice2, mo_pairs, mo_j, mo_turns, mo_pc>>

VARIABLES
    fo_template,  \* "conversation" or "monologue"
    fo_input,     \* clean_markup: the argument text
    fo_text,      \* the text handed from one pass to the next
    fo_log,       \* one record for each pass run: what it was given and returned
    fo_pc         \* "idle", the pass to run next, "done" or "raised"

fo_vars == <<fo_template, fo_input, fo_text, fo_log, fo_pc>>

vars ==
    <<cm_vars, ct_vars, ma_vars, sy_vars, lf_vars, cc_vars, tx_vars, st_vars,
      mo_vars, fo_vars>>

(***************************************************************************)
(* Each specification below runs one component; the state of the others    *)
(* stays as it is before they are called.                                  *)
(***************************************************************************)

CleanIdle ==
    /\ cm_input = <<>>
    /\ cm_prev = <<>>
    /\ cm_text = <<>>
    /\ cm_calls = 0

ChunkIdle ==
    /\ ct_text = <<>>
    /\ ct_max_bytes = 0
    /\ ct_sections = <<>>
    /\ ct_idx = 0
    /\ ct_current = <<>>
    /\ ct_chunks = <<>>
    /\ ct_pc = "idle"

NoResult == [how |-> "none", track |-> <<>>]

MergeIdle ==
    /\ ma_audio_chunks = <<>>
    /\ ma_idx = 0
    /\ ma_valid_chunks = <<>>
    /\ ma_export_failed = FALSE
    /\ ma_result = NoResult
    /\ ma_pc = "idle"

SynthIdle ==
    /\ sy_provider = ""
    /\ sy_outcome = <<>>
    /\ sy_idx = 0
    /\ sy_called = {}
    /\ sy_audio = <<>>
    /\ sy_combined = <<>>
    /\ sy_error = ""
    /\ sy_track = <<>>
    /\ sy_pc = "idle"

LongIdle ==
    /\ lf_chunks = <<>>
    /\ lf_i = 0
    /\ lf_chat_context = <<>>
    /\ lf_parts = <<>>
    /\ lf_instructions = <<>>
    /\ lf_final = <<>>
    /\ lf_calls = <<>>
    /\ lf_save = FALSE
    /\ lf_response = <<>>
    /\ lf_file = <<>>
    /\ lf_error = ""
    /\ lf_prompt_params = <<>>
    /\ lf_enhanced = <<>>
    /\ lf_pc = "idle"

ContentIdle ==
    /\ cc_input = <<>>
    /\ cc_min = 0
    /\ cc_max = 0
    /\ cc_chunk_size = 0
    /\ cc_sentences = <<>>
    /\ cc_idx = 0
    /\ cc_current = <<>>
    /\ cc_length = 0
    /\ cc_chunks = <<>>
    /\ cc_pc = "idle"

TurnIdle ==
    /\ tx_provider = ""
    /\ tx_turns = <<>>
    /\ tx_text = <<>>
    /\ tx_p1 = <<>>
    /\ tx_p2 = <<>>
    /\ tx_a1 = <<>>
    /\ tx_a2 = <<>>
    /\ tx_track = <<>>
    /\ tx_pc = "idle"

SplitIdle ==
    /\ st_text = <<>>
    /\ st_max_chars = 0
    /\ st_sentences = <<>>
    /\ st_i = 0
    /\ st_current = <<>>
    /\ st_chunks = <<>>
    /\ st_pc = "idle"

MonoIdle ==
    /\ mo_format_type = ""
    /\ mo_text = <<>>
    /\ mo_voice2 = ""
    /\ mo_pairs = <<>>
    /\ mo_j = 0
    /\ mo_turns = <<>>
    /\ mo_pc = "idle"

FailIdle ==
    /\ fo_template = ""
    /\ fo_input = <<>>
    /\ fo_text = <<>>
    /\ fo_log = <<>>
    /\ fo_pc = "idle"

(***************************************************************************)
(* Lexical structure of the tokens                                         *)
(***************************************************************************)

\* Tokens that are one whole tag "<...>" or "</...>".
TagTokens ==
    {"<Person1>", "</Person1>", "<Person2>", "</Person2>",
     "<Speaker>", "</Speaker>", "<b>", "</b>", "<p>", "</p>", "<s-x>"}

\* The run of word characters that follows "<" or "</" in a tag token.
TagWord(tok) ==
    CASE tok \in {"<Person1>", "</Person1>"} -> "Person1"
      [] tok \in {"<Person2>", "</Person2>"} -> "Person2"
      [] tok \in {"<Speaker>", "</Speaker>"} -> "Speaker"
      [] tok \in {"<b>", "</b>"} -> "b"
      [] tok \in {"<p>", "</p>"} -> "p"
      [] tok = "<s-x>" -> "s"
      [] OTHER -> ""

\* What stands between that word and the closing ">" of a tag token.
TagRest(tok) == IF tok = "<s-x>" THEN "-x" ELSE ""

IsClosingTag(tok) ==
    tok \in {"</Person1>", "</Person2>", "</Speaker>", "</b>", "</p>"}

\* The full name of a tag token: everything between "<" or "</" and ">".
TagName(tok) == <<TagWord(tok), TagRest(tok)>>

OpenTag(tag) ==
    CASE tag = "Person1" -> "<Person1>"
      [] tag = "Person2" -> "<Person2>"
      [] tag = "Speaker" -> "<Speaker>"
      [] tag = "p" -> "<p>"
      [] tag = "b" -> "<b>"

CloseTag(tag) ==
    CASE tag = "Person1" -> "</Person1>"
      [] tag = "Person2" -> "</Person2>"
      [] tag = "Speaker" -> "</Speaker>"
      [] tag = "p" -> "</p>"
      [] tag = "b" -> "</b>"

\* \s of the regular expressions, and str.strip()'s whitespace.
IsSpace(tok) == tok \in {" ", "\n"}

\* len(tok.encode('utf-8')).  The token "e_acute" is the letter e with an
\* acute accent (U+00E9): one character, two bytes.
Utf8Bytes(tok) ==
    CASE tok \in {"<Person1>", "<Person2>", "<Speaker>"} -> 9
      [] tok \in {"</Person1>", "</Person2>", "</Speaker>"} -> 10
      [] tok \in {"<b>", "<p>"} -> 3
      [] tok \in {"</b>", "</p>"} -> 4
      [] tok = "<s-x>" -> 5
      [] tok = "e_acute" -> 2
      [] tok = "xml" -> 3
      [] tok = "FENCE" -> 3
      [] tok = "scratchpad" -> 10
      [] tok = "plaintext" -> 9
      [] OTHER -> 1

RECURSIVE Utf8Len(_)
Utf8Len(s) == IF s = <<>> THEN 0 ELSE Utf8Bytes(Head(s)) + Utf8Len(Tail(s))

\* Tokens that contain the character ">" (it is always their last one).
HasGt(tok) == tok \in TagTokens \/ tok = ">"

\* Tokens that are words (runs of \w characters).
IsWord(tok) == tok \in {"a", "e_acute", "xml", "scratchpad", "plaintext"}

Range(s) == {s[i] : i \in 1..Len(s)}

\* Smallest index j >= i with s[j] \in T, 0 when there is none.
FirstIn(s, i, T) ==
    LET J == {j \in i..Len(s) : s[j] \in T}
    IN  IF J = {} THEN 0 ELSE CHOOSE j \in J : \A k \in J : j <= k

\* Smallest index j >= i with s[j] \notin T, Len(s)+1 when there is none.
FirstNotIn(s, i, T) ==
    LET J == {j \in i..Len(s) : s[j] \notin T}
    IN  IF J = {} THEN Len(s) + 1 ELSE CHOOSE j \in J : \A k \in J : j <= k

\* str.strip(): drop leading and trailing whitespace.
Strip(s) ==
    LET J == {j \in 1..Len(s) : ~IsSpace(s[j])}
    IN  IF J = {} THEN <<>>
        ELSE SubSeq(s, CHOOSE j \in J : \A k \in J : j <= k,
                       CHOOSE j \in J : \A k \in J : j >= k)

\* Delete every occurrence of the tokens in T.
RECURSIVE Without(_, _)
Without(s, T) ==
    IF s = <<>> THEN <<>>
    ELSE IF Head(s) \in T THEN Without(Tail(s), T)
    ELSE <<Head(s)>> \o Without(Tail(s), T)

(***************************************************************************)
(* templates/base.py: PodcastTemplate._clean_scratchpad                    *)
(***************************************************************************)

\* Last index of the match of the pattern of line 74 (re.DOTALL) that starts
\* at index i, 0 when none starts there.  Its alternatives, in order, with
\* F for the fence:  F scratchpad \n .*? F \n?  |  F plaintext \n .*? F \n?
\* |  F \n?  |  \[ .*? \]
ScratchMatchEnd(s, i) ==
    IF s[i] = "FENCE" THEN
        LET j == IF i + 2 <= Len(s) /\ s[i+1] \in {"scratchpad", "plaintext"}
                     /\ s[i+2] = "\n"
                 THEN FirstIn(s, i + 3, {"FENCE"}) ELSE 0
        IN  IF j # 0
            THEN (IF j + 1 <= Len(s) /\ s[j+1] = "\n" THEN j + 1 ELSE j)
            ELSE (IF i + 1 <= Len(s) /\ s[i+1] = "\n" THEN i + 1 ELSE i)
    ELSE IF s[i] = "[" THEN FirstIn(s, i + 1, {"]"})
    ELSE 0

RECURSIVE RemoveScratch(_, _)
RemoveScratch(s, i) ==
    IF i > Len(s) THEN <<>>
    ELSE LET m == ScratchMatchEnd(s, i)
         IN  IF m = 0 THEN <<s[i]>> \o RemoveScratch(s, i + 1)
             ELSE RemoveScratch(s, m + 1)

\* re.sub of xml(?=\s*</(?:tag_pattern)>) by nothing: the word xml is deleted
\* when only whitespace separates it from a supported closing tag.
RECURSIVE RemoveXml(_, _, _)
RemoveXml(s, i, tags) ==
    IF i > Len(s) THEN <<>>
    ELSE LET k == FirstNotIn(s, i + 1, {" ", "\n"})
         IN  IF s[i] = "xml" /\ k <= Len(s)
                 /\ \E t \in Range(tags) : s[k] = CloseTag(t)
             THEN RemoveXml(s, i + 1, tags)
             ELSE <<s[i]>> \o RemoveXml(s, i + 1, tags)

\* re.sub of _(.*?)_ by group 1: without DOTALL the dot stops at a newline.
RECURSIVE RemoveUnderscores(_, _)
RemoveUnderscores(s, i) ==
    IF i > Len(s) THEN <<>>
    ELSE LET j == FirstIn(s, i + 1, {"_", "\n"})
         IN  IF s[i] = "_" /\ j # 0 /\ s[j] = "_"
             THEN SubSeq(s, i + 1, j - 1) \o RemoveUnderscores(s, j + 1)
             ELSE <<s[i]>> \o RemoveUnderscores(s, i + 1)

clean_scratchpad(text, supported_tags) ==
    Strip(RemoveUnderscores(
              RemoveXml(RemoveScratch(text, 1), 1, supported_tags), 1))

(***************************************************************************)
(* templates/base.py: PodcastTemplate._clean_markup_tags                   *)
(***************************************************************************)

\* supported = ["speak", "lang", "p", "phoneme", "s", "sub"]
COMMON_TAGS == {"speak", "lang", "p", "phoneme", "s", "sub"}

\* LookaheadBlocks as it would be if "/?" could not give its "/" back: a
\* supported closing tag would be protected like the opening one.
LookaheadBlocksNoBacktrack(s, i, supported) ==
    IF s[i] \in TagTokens
    THEN TagWord(s[i]) \in supported
    ELSE /\ i + 1 <= Len(s)
         /\ s[i+1] \in supported
         /\ ~(i + 2 <= Len(s) /\ IsWord(s[i+2]))

\* The negative lookahead (?!(?:supported)\b) evaluated right after the "<"
\* of the token at index i: TRUE when a supported name followed by a word
\* boundary stands there, so that no match can start with this "<".
\* For a closing tag the first attempt (with "/" consumed by "/?") may be
\* blocked, but the regex then backtracks to "/?" matching nothing, the
\* lookahead sees "/" and passes: a closing tag is never protected.
LookaheadBlocks(s, i, supported) ==
    IF s[i] \in TagTokens
    THEN ~IsClosingTag(s[i]) /\ TagWord(s[i]) \in supported
    ELSE /\ i + 1 <= Len(s)
         /\ s[i+1] \in supported
         /\ ~(i + 2 <= Len(s) /\ IsWord(s[i+2]))

\* Last index of the match of </?(?!(?:supported)\b)[^>]+> starting at i,
\* 0 when none starts there.  [^>]+ needs one character at least and runs to
\* the first ">" whatever lies between (other "<", whole tags, newlines).
UnsupportedMatchEnd(s, i, supported) ==
    IF s[i] \in TagTokens
    THEN (IF LookaheadBlocks(s, i, supported) THEN 0 ELSE i)
    ELSE IF s[i] = "<" /\ ~LookaheadBlocks(s, i, supported)
              /\ i + 1 <= Len(s) /\ s[i+1] # ">"
         THEN FirstIn(s, i + 1, TagTokens \cup {">"})
         ELSE 0

RECURSIVE RemoveUnsupported(_, _, _)
RemoveUnsupported(s, i, supported) ==
    IF i > Len(s) THEN <<>>
    ELSE LET m == UnsupportedMatchEnd(s, i, supported)
         IN  IF m = 0 THEN <<s[i]>> \o RemoveUnsupported(s, i + 1, supported)
             ELSE RemoveUnsupported(s, m + 1, supported)

\* Last "\n" of the whitespace run that starts at index i (i itself when the
\* run holds no other newline): \s* is greedy and backtracks to a "\n".
LastNewlineInRun(s, i) ==
    LET e == FirstNotIn(s, i, {" ", "\n"}) - 1
        J == {j \in i..e : s[j] = "\n"}
    IN  CHOOSE j \in J : \A k \in J : j >= k

\* re.sub of \n\s*\n by one newline
RECURSIVE CollapseNewlines(_, _)
CollapseNewlines(s, i) ==
    IF i > Len(s) THEN <<>>
    ELSE IF s[i] = "\n"
         THEN <<"\n">> \o CollapseNewlines(s, LastNewlineInRun(s, i) + 1)
         ELSE <<s[i]>> \o CollapseNewlines(s, i + 1)

\* CloseStop as it would be with a lookahead of "$" alone.
CloseStopAtEnd(s, i, tags) ==
    IF Len(s) >= i /\ s[Len(s)] = "\n" THEN Len(s) ELSE Len(s) + 1

\* Position where the lazy (.*?) of the closing pass stops: the first
\* supported opening tag, or "$", which is the end of the string or the
\* place just before a newline that ends the string.  The result is the
\* index of the first token the match does not contain.
CloseStop(s, i, tags) ==
    LET j == FirstIn(s, i, {OpenTag(t) : t \in Range(tags)})
    IN  IF j # 0 THEN j
        ELSE IF Len(s) >= i /\ s[Len(s)] = "\n" THEN Len(s)
        ELSE Len(s) + 1

\* re.sub of <tag>(.*?)(?=<(?:tags)>|$) by <tag>, group 1, </tag> (re.DOTALL)
RECURSIVE CloseTagPass(_, _, _, _)
CloseTagPass(s, i, tag, tags) ==
    IF i > Len(s) THEN <<>>
    ELSE IF s[i] = OpenTag(tag)
         THEN LET e == CloseStop(s, i + 1, tags)
              IN  SubSeq(s, i, e - 1) \o <<CloseTag(tag)>>
                      \o CloseTagPass(s, e, tag, tags)
         ELSE <<s[i]>> \o CloseTagPass(s, i + 1, tag, tags)

\* for tag in self.supported_tags: cleaned_text = re.sub(...)
RECURSIVE CloseAllTags(_, _, _)
CloseAllTags(s, k, tags) ==
    IF k > Len(tags) THEN s
    ELSE CloseAllTags(CloseTagPass(s, 1, tags[k], tags), k + 1, tags)

clean_markup_tags(text, supported_tags) ==
    LET supported == COMMON_TAGS \cup Range(supported_tags)
        removed == RemoveUnsupported(text, 1, supported)
        lines == CollapseNewlines(removed, 1)
        plain == Without(lines, {"*"})
    IN  Strip(CloseAllTags(plain, 1, supported_tags))

(***************************************************************************)
(* templates/base.py: PodcastTemplate._fix_malformed_tags                  *)
(***************************************************************************)

\* The same substitution with the pattern </tag>\s+<tag>, which needs at least
\* one whitespace character between the two tags.
RECURSIVE MergeSplitTurnsSpaced(_, _, _)
MergeSplitTurnsSpaced(s, i, tag) ==
    IF i > Len(s) THEN <<>>
    ELSE LET k == FirstNotIn(s, i + 1, {" ", "\n"})
         IN  IF s[i] = CloseTag(tag) /\ k > i + 1 /\ k <= Len(s)
                  /\ s[k] = OpenTag(tag)
             THEN <<" ">> \o MergeSplitTurnsSpaced(s, k + 1, tag)
             ELSE <<s[i]>> \o MergeSplitTurnsSpaced(s, i + 1, tag)

\* re.sub of </tag>\s*<tag> by one space
RECURSIVE MergeSplitTurns(_, _, _)
MergeSplitTurns(s, i, tag) ==
    IF i > Len(s) THEN <<>>
    ELSE LET k == FirstNotIn(s, i + 1, {" ", "\n"})
         IN  IF s[i] = CloseTag(tag) /\ k <= Len(s) /\ s[k] = OpenTag(tag)
             THEN <<" ">> \o MergeSplitTurns(s, k + 1, tag)
             ELSE <<s[i]>> \o MergeSplitTurns(s, i + 1, tag)

RECURSIVE MergeAllSplitTurns(_, _, _)
MergeAllSplitTurns(s, k, tags) ==
    IF k > Len(tags) THEN s
    ELSE MergeAllSplitTurns(MergeSplitTurns(s, 1, tags[k]), k + 1, tags)

\* re.sub of \s+ by one space
RECURSIVE CollapseSpaces(_, _)
CollapseSpaces(s, i) ==
    IF i > Len(s) THEN <<>>
    ELSE IF IsSpace(s[i])
         THEN <<" ">> \o CollapseSpaces(s, FirstNotIn(s, i, {" ", "\n"}))
         ELSE <<s[i]>> \o CollapseSpaces(s, i + 1)

\* Last index of the match of <[^>]+> starting at index i, 0 when none.
AnyTagMatchEnd(s, i) ==
    IF i > Len(s) THEN 0
    ELSE IF s[i] \in TagTokens THEN i
    ELSE IF s[i] = "<" /\ i + 1 <= Len(s) /\ s[i+1] # ">"
         THEN FirstIn(s, i + 1, TagTokens \cup {">"})
         ELSE 0

\* re.sub of </tag>(<[^>]+>) by </tag>, a space, group 1
RECURSIVE SpaceAfterClose(_, _, _)
SpaceAfterClose(s, i, tag) ==
    IF i > Len(s) THEN <<>>
    ELSE LET m == AnyTagMatchEnd(s, i + 1)
         IN  IF s[i] = CloseTag(tag) /\ m # 0
             THEN <<s[i], " ">> \o SubSeq(s, i + 1, m)
                      \o SpaceAfterClose(s, m + 1, tag)
             ELSE <<s[i]>> \o SpaceAfterClose(s, i + 1, tag)

\* re.sub of ([^>\s])(<tag>) by group 1, a space, group 2
RECURSIVE SpaceBeforeOpen(_, _, _)
SpaceBeforeOpen(s, i, tag) ==
    IF i > Len(s) THEN <<>>
    ELSE IF i + 1 <= Len(s) /\ s[i+1] = OpenTag(tag)
              /\ ~HasGt(s[i]) /\ ~IsSpace(s[i])
         THEN <<s[i], " ", s[i+1]>> \o SpaceBeforeOpen(s, i + 2, tag)
         ELSE <<s[i]>> \o SpaceBeforeOpen(s, i + 1, tag)

RECURSIVE SpaceAroundTags(_, _, _)
SpaceAroundTags(s, k, tags) ==
    IF k > Len(tags) THEN s
    ELSE SpaceAroundTags(
             SpaceBeforeOpen(SpaceAfterClose(s, 1, tags[k]), 1, tags[k]),
             k + 1, tags)

fix_malformed_tags(text, supported_tags) ==
    Strip(SpaceAroundTags(
              CollapseSpaces(MergeAllSplitTurns(text, 1, supported_tags), 1),
              1, supported_tags))

(***************************************************************************)
(* templates/base.py: PodcastTemplate.clean_markup                         *)
(***************************************************************************)

clean_markup(text, supported_tags) ==
    fix_malformed_tags(
        clean_markup_tags(clean_scratchpad(text, supported_tags),
                          supported_tags),
        supported_tags)

\* ConversationTemplate.__init__: self.supported_tags = ["Person1", "Person2"]
ConversationTags == <<"Person1", "Person2">>

(***************************************************************************)
(* Specification of clean_markup: the conversation template cleans a raw   *)
(* response, and cleans its own output again.                              *)
(***************************************************************************)

\* Longest input text enumerated exhaustively, in tokens.
MaxLen == 3

\* Number of successive clean_markup calls on one text.
MaxCalls == 2

CleanAlphabet ==
    {"<Person1>", "</Person1>", "<Person2>", "</Person2>", "<b>", "<p>",
     "<s-x>", "<", ">", "a", " ", "\n", "*", "_", "[", "]", "xml", "FENCE",
     "scratchpad"}

\* Longer raw responses: the example of ConversationTemplate.get_template,
\* a response wrapped in a scratchpad block, a split turn, an unclosed turn.
CleanScenarios ==
    {<<"<Person1>", "a", "</Person1>", "\n", "<Person2>", "a", "</Person2>">>,
     <<"FENCE", "scratchpad", "\n", "a", "FENCE", "\n",
       "<Person1>", "a", "</Person1>">>,
     <<"FENCE", "plaintext", "\n", "<Person1>", "a", "FENCE">>,
     <<"<Person1>", "a", "</Person1>", " ", "<Person1>", "a", "</Person1>">>,
     <<"<Person1>", "a", "<Person2>", "a", "<Person1>", "a">>,
     <<"<Person1>", "_", "a", "_", "xml", "\n", "</Person1>", "\n", " ", "\n",
       "<Person2>", "*", "a", "*", "<b>", "a", "</b>", "</Person2>">>,
     <<"<Person2>", "a", "<", " ", "a", "</Person2>", "<Person1>", "a">>}

BoundedSeq(S, n) == UNION {[1..k -> S] : k \in 0..n}

CleanInit ==
    /\ cm_input \in BoundedSeq(CleanAlphabet, MaxLen) \cup CleanScenarios
    /\ cm_prev = cm_input
    /\ cm_text = cm_input
    /\ cm_calls = 0
    /\ ChunkIdle
    /\ MergeIdle
    /\ SynthIdle
    /\ LongIdle
    /\ ContentIdle
    /\ TurnIdle
    /\ SplitIdle
    /\ MonoIdle
    /\ FailIdle

\* self.response = self.template.clean_markup(self.response)
CleanMarkup ==
    /\ cm_calls < MaxCalls
    /\ cm_prev' = cm_text
    /\ cm_text' = clean_markup(cm_text, ConversationTags)
    /\ cm_calls' = cm_calls + 1
    /\ UNCHANGED cm_input
    /\ UNCHANGED <<ct_vars, ma_vars, sy_vars, lf_vars, cc_vars, tx_vars,
                   st_vars, mo_vars, fo_vars>>

CleanNext == CleanMarkup

SpecClean == CleanInit /\ [][CleanNext]_vars

(***************************************************************************)
(* Properties of clean_markup                                              *)
(***************************************************************************)

\* The opening and closing tags of one speaker in s, in order.
TagOccurrences(s, tag) ==
    SelectSeq(s, LAMBDA t : t \in {OpenTag(tag), CloseTag(tag)})

\* They alternate open, close, and the last one is a close.
WellPaired(s, tag) ==
    LET o == TagOccurrences(s, tag)
    IN  /\ Len(o) % 2 = 0
        /\ \A i \in 1..Len(o) :
               o[i] = IF i % 2 = 1 THEN OpenTag(tag) ELSE CloseTag(tag)

\* Every opening tag has a closing tag of its own before the next opening.
ClosedBeforeNext(s, tag) ==
    \A i \in 1..Len(s) :
        s[i] = OpenTag(tag) =>
            \E j \in (i+1)..Len(s) :
                /\ s[j] = CloseTag(tag)
                /\ \A k \in (i+1)..(j-1) : s[k] # OpenTag(tag)

\* A tag whose name is neither a supported tag nor on the common list.
IsForeignTagAt(s, i, supported_tags) ==
    \/ /\ s[i] \in TagTokens
       /\ \/ TagRest(s[i]) # ""
          \/ TagWord(s[i]) \notin COMMON_TAGS \cup Range(supported_tags)
    \/ /\ s[i] = "<"
       /\ i + 2 <= Len(s)
       /\ IsWord(s[i+1])
       /\ s[i+1] \notin COMMON_TAGS \cup Range(supported_tags)
       /\ s[i+2] = ">"

\* C5: clean_markup is idempotent: cleaning the output of clean_markup
\* again returns it unchanged.
C5_Idempotent == cm_calls >= 2 => cm_text = cm_prev

\* C6: after clean_markup, for each supported tag T the occurrences of <T>
\* and </T> alternate open, close and are equal in number, also when the
\* input's tags were closed already.
C6_EveryTagClosedOnce ==
    cm_calls >= 1 =>
        \A k \in 1..Len(ConversationTags) :
            WellPaired(cm_text, ConversationTags[k])

\* C6 witness: a turn that came closed and a turn that came unclosed are
\* both in the output, each with one closing tag.
C6_Witness ==
    /\ cm_calls = 1
    /\ cm_input = <<"<Person1>", "a", "</Person1>", "\n",
                    "<Person2>", "a", "</Person2>">>
    /\ cm_text = <<"<Person1>", "a", " ", "</Person1>", " ",
                   "<Person2>", "a", "</Person2>">>

\* C7: after clean_markup every <Person1> has a later </Person1> before the
\* next <Person1>.
C7_Person1ClosedBeforeNext ==
    cm_calls >= 1 => ClosedBeforeNext(cm_text, "Person1")

\* C7 witness: the model forgot to close <Person1>; it is closed at the next
\* supported opening tag and at the end of the string.
C7_Witness ==
    /\ cm_calls = 1
    /\ cm_input = <<"<Person1>", "a", "<Person2>", "a", "<Person1>", "a">>
    /\ cm_text = <<"<Person1>", "a", "</Person1>", " ", "<Person2>", "a",
                   "</Person2>", " ", "<Person1>", "a", "</Person1>">>

\* C8: after clean_markup the output holds no tag whose name is outside
\* supported_tags and the common list speak, lang, p, phoneme, s, sub.
C8_OnlyAllowedTags ==
    cm_calls >= 1 =>
        \A i \in 1..Len(cm_text) :
            ~IsForeignTagAt(cm_text, i, ConversationTags)

\* A closing tag of the speaker followed, directly or across whitespace, by
\* the opening tag of the same speaker.
SameSpeakerAdjacent(s, tag) ==
    \E i \in 1..Len(s) :
        /\ s[i] = CloseTag(tag)
        /\ \E j \in (i+1)..Len(s) :
               /\ s[j] = OpenTag(tag)
               /\ \A k \in (i+1)..(j-1) : IsSpace(s[k])

\* The input is two closed turns of one speaker, each of one word, with
\* nothing but whitespace between them.
IsSplitTurn(s, tag) ==
    /\ Len(s) >= 6
    /\ s[1] = OpenTag(tag) /\ IsWord(s[2]) /\ s[3] = CloseTag(tag)
    /\ \A k \in 4..(Len(s) - 3) : IsSpace(s[k])
    /\ s[Len(s) - 2] = OpenTag(tag) /\ IsWord(s[Len(s) - 1])
    /\ s[Len(s)] = CloseTag(tag)

\* C24: after clean_markup no closing supported tag is followed, directly or
\* across whitespace, by the opening tag of the same speaker; two consecutive
\* turns of one speaker come out as one turn, one opening and one closing
\* tag, whose text is the two texts joined by one space.
C24_SameSpeakerTurnsMerged ==
    cm_calls >= 1 =>
        \A k \in 1..Len(ConversationTags) :
            LET tag == ConversationTags[k]
            IN  /\ ~SameSpeakerAdjacent(cm_text, tag)
                /\ (cm_calls = 1 /\ IsSplitTurn(cm_input, tag)) =>
                       cm_text = <<OpenTag(tag), cm_input[2], " ",
                                   cm_input[Len(cm_input) - 1], CloseTag(tag)>>

\* C24 witness: the two Person1 turns of the input, a space apart, came out
\* as one turn.
C24_Witness ==
    /\ cm_calls = 1
    /\ IsSplitTurn(cm_input, "Person1")
    /\ SameSpeakerAdjacent(cm_input, "Person1")
    /\ cm_text = <<"<Person1>", "a", " ", "a", "</Person1>">>

(***************************************************************************)
(* tts/providers/geminimulti.py: GeminiMultiTTS.chunk_text                  *)
(***************************************************************************)

\* <(?:Person[12]|Speaker)> and </(?:Person[12]|Speaker)>
SectionOpeners == {"<Person1>", "<Person2>", "<Speaker>"}
SectionClosers == {"</Person1>", "</Person2>", "</Speaker>"}

\* Last index of the match of the section pattern (re.DOTALL) starting at
\* index i: an opening tag, then lazily anything up to the first closing tag
\* of any of the three speakers.  0 when none starts there.
SectionMatchEnd(s, i) ==
    IF s[i] \in SectionOpeners THEN FirstIn(s, i + 1, SectionClosers) ELSE 0

\* [s.strip() for s in sections if s.strip()] applied to one piece.
KeepStripped(piece) == IF Strip(piece) = <<>> THEN <<>> ELSE <<Strip(piece)>>

\* re.split(pattern, text, flags=re.DOTALL), stripped and without the empty
\* pieces: g is where the untagged piece under way began.
RECURSIVE SplitSections(_, _, _)
SplitSections(s, i, g) ==
    IF i > Len(s) THEN KeepStripped(SubSeq(s, g, Len(s)))
    ELSE LET e == SectionMatchEnd(s, i)
         IN  IF e = 0 THEN SplitSections(s, i + 1, g)
             ELSE KeepStripped(SubSeq(s, g, i - 1))
                      \o KeepStripped(SubSeq(s, i, e))
                      \o SplitSections(s, e + 1, e + 1)

\* tag_match = re.match(...): the section starts with a tagged turn.
TagMatches(section) ==
    section # <<>> /\ SectionMatchEnd(section, 1) # 0

\* The same section written with the tag Person1 whatever its speaker.
RebuiltSectionAsPerson1(section) ==
    LET content == Strip(SubSeq(section, 2, SectionMatchEnd(section, 1) - 1))
    IN  <<OpenTag("Person1")>> \o content \o <<CloseTag("Person1")>>

\* f"<{speaker_tag}>{content}</{speaker_tag}>" with speaker_tag the name of
\* the opening tag and content = tag_match.group(2).strip()
RebuiltSection(section) ==
    LET speaker_tag == TagWord(section[1])
        content == Strip(SubSeq(section, 2, SectionMatchEnd(section, 1) - 1))
    IN  <<OpenTag(speaker_tag)>> \o content \o <<CloseTag(speaker_tag)>>

\* if len(test_chunk.encode('utf-8')) > max_bytes and current_chunk
StartsNewChunk(current_chunk, section, max_bytes) ==
    /\ Utf8Len(current_chunk \o RebuiltSection(section)) > max_bytes
    /\ current_chunk # <<>>

(***************************************************************************)
(* Specification of chunk_text                                             *)
(***************************************************************************)

\* Largest number of tagged turns in a transcript handed to chunk_text.
MaxSections == 2

\* The two byte budgets tried: one tagged turn of up to three content bytes,
\* two tagged turns of up to four content bytes together.
SmallBudget == 22
LargeBudget == 42

TurnSpeakers == {"Person1", "Person2", "Speaker"}

TurnContents == {<<"a">>, <<"a", " ", "e_acute">>, <<" ", "a">>}

\* A tagged turn, closed by its own closing tag or by </Person2>, after
\* nothing or a newline.
GappedTurns ==
    UNION {{gap \o <<OpenTag(sp)>> \o c \o <<CloseTag(cl)>> :
               gap \in {<<>>, <<"\n">>}, c \in TurnContents,
               cl \in {sp, "Person2"}} : sp \in TurnSpeakers}

RECURSIVE Transcripts(_)
Transcripts(n) ==
    IF n = 0 THEN {<<>>}
    ELSE LET shorter == Transcripts(n - 1)
         IN  shorter \cup {t \o turn : t \in shorter, turn \in GappedTurns}

\* A transcript may end with untagged text or with a turn left open.
ChunkInputs ==
    {t \o tail : t \in Transcripts(MaxSections),
                 tail \in {<<>>, <<"a">>, <<"<Person1>", "a">>}}

ChunkInit ==
    /\ ct_text \in ChunkInputs
    /\ ct_max_bytes \in {SmallBudget, LargeBudget}
    /\ ct_sections = <<>>
    /\ ct_idx = 0
    /\ ct_current = <<>>
    /\ ct_chunks = <<>>
    /\ ct_pc = "start"
    /\ CleanIdle
    /\ MergeIdle
    /\ SynthIdle
    /\ LongIdle
    /\ ContentIdle
    /\ TurnIdle
    /\ SplitIdle
    /\ MonoIdle
    /\ FailIdle

\* Lines 46-53: split the text into sections, start with no chunk.
ChunkTextSplit ==
    /\ ct_pc = "start"
    /\ ct_sections' = SplitSections(ct_text, 1, 1)
    /\ ct_idx' = 1
    /\ ct_current' = <<>>
    /\ ct_chunks' = <<>>
    /\ ct_pc' = "loop"
    /\ UNCHANGED <<ct_text, ct_max_bytes>>
    /\ UNCHANGED <<cm_vars, ma_vars, sy_vars, lf_vars, cc_vars, tx_vars,
                   st_vars, mo_vars, fo_vars>>

\* Lines 55-76: one iteration of "for section in sections".
ChunkTextSection ==
    /\ ct_pc = "loop"
    /\ ct_idx <= Len(ct_sections)
    /\ LET section == ct_sections[ct_idx]
       IN  IF ~TagMatches(section)
           THEN UNCHANGED <<ct_current, ct_chunks>>
           ELSE IF StartsNewChunk(ct_current, section, ct_max_bytes)
           THEN /\ ct_chunks' = Append(ct_chunks, ct_current)
                /\ ct_current' = RebuiltSection(section)
           ELSE /\ ct_current' = ct_current \o RebuiltSection(section)
                /\ UNCHANGED ct_chunks
    /\ ct_idx' = ct_idx + 1
    /\ UNCHANGED <<ct_text, ct_max_bytes, ct_sections, ct_pc>>
    /\ UNCHANGED <<cm_vars, ma_vars, sy_vars, lf_vars, cc_vars, tx_vars,
                   st_vars, mo_vars, fo_vars>>

\* Lines 78-83: add the final chunk if it exists, return chunks.
ChunkTextReturn ==
    /\ ct_pc = "loop"
    /\ ct_idx > Len(ct_sections)
    /\ ct_chunks' = IF ct_current # <<>> THEN Append(ct_chunks, ct_current)
                    ELSE ct_chunks
    /\ ct_pc' = "done"
    /\ UNCHANGED <<ct_text, ct_max_bytes, ct_sections, ct_idx, ct_current>>
    /\ UNCHANGED <<cm_vars, ma_vars, sy_vars, lf_vars, cc_vars, tx_vars,
                   st_vars, mo_vars, fo_vars>>

ChunkNext == ChunkTextSplit \/ ChunkTextSection \/ ChunkTextReturn

SpecChunk == ChunkInit /\ [][ChunkNext]_vars

\* Bytes of the longest word (run of non-space characters outside tags).
RECURSIVE LongestWord(_, _, _)
LongestWord(s, run, best) ==
    IF s = <<>> THEN (IF run > best THEN run ELSE best)
    ELSE IF IsSpace(Head(s)) \/ Head(s) \in TagTokens
         THEN LongestWord(Tail(s), 0, IF run > best THEN run ELSE best)
         ELSE LongestWord(Tail(s), run + Utf8Bytes(Head(s)), best)

\* C1: with a byte budget no smaller than the longest word, every chunk that
\* chunk_text returns encodes to at most max_bytes bytes, also when one tagged
\* section alone is larger than the budget.
C1_ChunksWithinBudget ==
    (ct_pc = "done" /\ LongestWord(ct_text, 0, 0) <= ct_max_bytes) =>
        \A k \in 1..Len(ct_chunks) : Utf8Len(ct_chunks[k]) <= ct_max_bytes

\* The tagged sections of a text from index i on, left to right: an opening
\* speaker tag up to the first closing speaker tag after it.  As written
\* when raw, otherwise with the content stripped of surrounding whitespace
\* and the closing tag of the opening speaker.
RECURSIVE TaggedSections(_, _, _)
TaggedSections(s, i, raw) ==
    IF i > Len(s) THEN <<>>
    ELSE IF /\ s[i] \in SectionOpeners
            /\ \E j \in (i+1)..Len(s) : s[j] \in SectionClosers
         THEN LET e == CHOOSE j \in (i+1)..Len(s) :
                           /\ s[j] \in SectionClosers
                           /\ \A k \in (i+1)..(j-1) : s[k] \notin SectionClosers
                  sp == CHOOSE t \in TurnSpeakers : OpenTag(t) = s[i]
                  section == IF raw THEN SubSeq(s, i, e)
                             ELSE <<s[i]>> \o Strip(SubSeq(s, i + 1, e - 1))
                                      \o <<CloseTag(sp)>>
              IN  <<section>> \o TaggedSections(s, e + 1, raw)
         ELSE TaggedSections(s, i + 1, raw)

\* The pieces of a list one after the other.
RECURSIVE Flatten(_)
Flatten(list) ==
    IF list = <<>> THEN <<>> ELSE Head(list) \o Flatten(Tail(list))

\* The sections of each chunk in turn, all in one list.
RECURSIVE SectionsOfChunks(_)
SectionsOfChunks(chunks) ==
    IF chunks = <<>> THEN <<>>
    ELSE TaggedSections(Head(chunks), 1, TRUE)
             \o SectionsOfChunks(Tail(chunks))

\* Every chunk is made of whole tagged sections and nothing else.
ChunksOfWholeSections(chunks) ==
    \A k \in 1..Len(chunks) :
        Flatten(TaggedSections(chunks[k], 1, TRUE)) = chunks[k]

\* C27 as stated: the chunks are made of whole sections and, read in order,
\* give exactly the tagged sections of the input as they are written there.
C27_SectionsEmittedAsWritten ==
    ct_pc = "done" =>
        /\ ChunksOfWholeSections(ct_chunks)
        /\ SectionsOfChunks(ct_chunks) = TaggedSections(ct_text, 1, TRUE)

\* C27 amended: the chunks are made of whole sections and, read in order,
\* give the tagged sections of the input once each and in the original
\* order, each written as its opening speaker tag, its content stripped of
\* surrounding whitespace, and the closing tag of that speaker.
C27_SectionsEmittedOnceInOrder ==
    ct_pc = "done" =>
        /\ ChunksOfWholeSections(ct_chunks)
        /\ SectionsOfChunks(ct_chunks) = TaggedSections(ct_text, 1, FALSE)

\* C27 witness: two sections of different speakers, the second with a space
\* before its content, were returned in two chunks.
C27_Witness ==
    /\ ct_pc = "done"
    /\ Len(ct_chunks) = 2
    /\ TaggedSections(ct_text, 1, TRUE) =
           << <<"<Person2>", "a", " ", "e_acute", "</Person2>">>,
              <<"<Speaker>", " ", "a", "</Speaker>">> >>
    /\ ct_chunks[2] = <<"<Speaker>", "a", "</Speaker>">>

(***************************************************************************)
(* tts/providers/geminimulti.py: GeminiMultiTTS.merge_audio                 *)
(*                                                                         *)
(* An audio chunk is the bytes returned for one synthesis chunk: id is its *)
(* position in the original order, kind says what the bytes are: "mp3"     *)
(* decodes to a segment, "silent" decodes to a segment of length 0,        *)
(* "corrupt" makes AudioSegment.from_file raise, "empty" is b"".           *)
(***************************************************************************)

AudioKinds == {"mp3", "silent", "corrupt", "empty"}

\* Largest number of audio chunks handed to merge_audio.
MaxAudioChunks == 3

AudioChunkLists ==
    UNION {{[i \in 1..n |-> [id |-> i, kind |-> kinds[i]]] :
               kinds \in [1..n -> AudioKinds]} : n \in 0..MaxAudioChunks}

MergeInit ==
    /\ ma_audio_chunks \in AudioChunkLists
    /\ ma_idx = 0
    /\ ma_valid_chunks = <<>>
    /\ ma_export_failed = FALSE
    /\ ma_result = NoResult
    /\ ma_pc = "start"
    /\ CleanIdle
    /\ ChunkIdle
    /\ SynthIdle
    /\ LongIdle
    /\ ContentIdle
    /\ TurnIdle
    /\ SplitIdle
    /\ MonoIdle
    /\ FailIdle

\* Lines 210-215, the handler of the outer try: return the first chunk of
\* the argument list, raise when there is none.
MergeFallback(audio_chunks) ==
    IF audio_chunks # <<>>
    THEN [how |-> "fallback", track |-> <<audio_chunks[1]>>]
    ELSE [how |-> "raised", track |-> <<>>]

\* Lines 142-143: if not audio_chunks: return b""
MergeAudioEmpty ==
    /\ ma_pc = "start"
    /\ ma_audio_chunks = <<>>
    /\ ma_result' = [how |-> "empty_bytes", track |-> <<>>]
    /\ ma_pc' = "done"
    /\ UNCHANGED <<ma_audio_chunks, ma_idx, ma_valid_chunks, ma_export_failed>>
    /\ UNCHANGED <<cm_vars, ct_vars, sy_vars, lf_vars, cc_vars, tx_vars,
                   st_vars, mo_vars, fo_vars>>

\* Lines 145-146: if len(audio_chunks) == 1: return audio_chunks[0]
MergeAudioSingle ==
    /\ ma_pc = "start"
    /\ Len(ma_audio_chunks) = 1
    /\ ma_result' = [how |-> "only_chunk", track |-> <<ma_audio_chunks[1]>>]
    /\ ma_pc' = "done"
    /\ UNCHANGED <<ma_audio_chunks, ma_idx, ma_valid_chunks, ma_export_failed>>
    /\ UNCHANGED <<cm_vars, ct_vars, sy_vars, lf_vars, cc_vars, tx_vars,
                   st_vars, mo_vars, fo_vars>>

\* Lines 148-153: enter the try block and the loop.
MergeAudioBegin ==
    /\ ma_pc = "start"
    /\ Len(ma_audio_chunks) >= 2
    /\ ma_idx' = 1
    /\ ma_valid_chunks' = <<>>
    /\ ma_pc' = "loop"
    /\ UNCHANGED <<ma_audio_chunks, ma_export_failed, ma_result>>
    /\ UNCHANGED <<cm_vars, ct_vars, sy_vars, lf_vars, cc_vars, tx_vars,
                   st_vars, mo_vars, fo_vars>>

\* Lines 154-181: one iteration; the chunk is skipped when empty, decoded
\* otherwise and kept when the segment has a length.
MergeAudioChunk ==
    /\ ma_pc = "loop"
    /\ ma_idx <= Len(ma_audio_chunks)
    /\ LET chunk == ma_audio_chunks[ma_idx]
       IN  ma_valid_chunks' =
               IF chunk.kind = "mp3" THEN Append(ma_valid_chunks, chunk)
               ELSE ma_valid_chunks
    /\ ma_idx' = ma_idx + 1
    /\ UNCHANGED <<ma_audio_chunks, ma_export_failed, ma_result, ma_pc>>
    /\ UNCHANGED <<cm_vars, ct_vars, sy_vars, lf_vars, cc_vars, tx_vars,
                   st_vars, mo_vars, fo_vars>>

\* Lines 160-163 and 183-185: writing the temporary file raises; the inner
\* handler logs and continues with the next chunk.
MergeAudioChunkUnwritable ==
    /\ ma_pc = "loop"
    /\ ma_idx <= Len(ma_audio_chunks)
    /\ ma_audio_chunks[ma_idx].kind # "empty"
    /\ ma_idx' = ma_idx + 1
    /\ UNCHANGED <<ma_audio_chunks, ma_valid_chunks, ma_export_failed,
                   ma_result, ma_pc>>
    /\ UNCHANGED <<cm_vars, ct_vars, sy_vars, lf_vars, cc_vars, tx_vars,
                   st_vars, mo_vars, fo_vars>>

\* Lines 187-188 and 210-215: no valid chunk; the RuntimeError raised in the
\* try block is caught by the handler of that same block.
MergeAudioNoValid ==
    /\ ma_pc = "loop"
    /\ ma_idx > Len(ma_audio_chunks)
    /\ ma_valid_chunks = <<>>
    /\ ma_result' = MergeFallback(ma_audio_chunks)
    /\ ma_pc' = "done"
    /\ UNCHANGED <<ma_audio_chunks, ma_idx, ma_valid_chunks, ma_export_failed>>
    /\ UNCHANGED <<cm_vars, ct_vars, sy_vars, lf_vars, cc_vars, tx_vars,
                   st_vars, mo_vars, fo_vars>>

\* Lines 190-208: concatenate the valid segments in order and export them.
MergeAudioExport ==
    /\ ma_pc = "loop"
    /\ ma_idx > Len(ma_audio_chunks)
    /\ ma_valid_chunks # <<>>
    /\ ma_result' = [how |-> "merged", track |-> ma_valid_chunks]
    /\ ma_pc' = "done"
    /\ UNCHANGED <<ma_audio_chunks, ma_idx, ma_valid_chunks, ma_export_failed>>
    /\ UNCHANGED <<cm_vars, ct_vars, sy_vars, lf_vars, cc_vars, tx_vars,
                   st_vars, mo_vars, fo_vars>>

\* Lines 190-215: the concatenation or the export raises, or the export is
\* empty; the handler returns its fallback.
MergeAudioExportFails ==
    /\ ma_pc = "loop"
    /\ ma_idx > Len(ma_audio_chunks)
    /\ ma_valid_chunks # <<>>
    /\ ma_export_failed' = TRUE
    /\ ma_result' = MergeFallback(ma_audio_chunks)
    /\ ma_pc' = "done"
    /\ UNCHANGED <<ma_audio_chunks, ma_idx, ma_valid_chunks>>
    /\ UNCHANGED <<cm_vars, ct_vars, sy_vars, lf_vars, cc_vars, tx_vars,
                   st_vars, mo_vars, fo_vars>>

MergeNext ==
    \/ MergeAudioEmpty
    \/ MergeAudioSingle
    \/ MergeAudioBegin
    \/ MergeAudioChunk
    \/ MergeAudioChunkUnwritable
    \/ MergeAudioNoValid
    \/ MergeAudioExport
    \/ MergeAudioExportFails

SpecMerge == MergeInit /\ [][MergeNext]_vars

\* C3: when no chunk yields valid audio (none decodes, or the list is
\* empty), merge_audio raises the "no valid audio" error to its caller and
\* returns no bytes.
C3_NoValidAudioRaises ==
    (ma_pc = "done" /\ \A i \in 1..Len(ma_audio_chunks) :
                           ma_audio_chunks[i].kind # "mp3")
        => ma_result.how = "raised"

\* C4: when the merge/export step fails after at least one chunk decoded,
\* merge_audio does not raise and returns the first decoded fragment, never
\* a chunk that was empty or failed to decode.
C4_FallbackIsFirstDecoded ==
    (ma_pc = "done" /\ ma_export_failed /\ ma_valid_chunks # <<>>)
        => /\ ma_result.how # "raised"
           /\ ma_result.track = <<ma_valid_chunks[1]>>

\* The chunks of a list that decode to audio of some length.
AudibleChunks(chunks) == SelectSeq(chunks, LAMBDA c : c.kind = "mp3")

\* C28: for any list of chunks merge_audio leaves out every chunk that is
\* empty or does not decode, and as long as one chunk decodes it does not
\* raise and returns the decoded chunks, all of them, in their original
\* relative order.
C28_SkipsBadChunksKeepsOrder ==
    ma_pc = "done" =>
        /\ \A i \in 1..Len(ma_result.track) :
               ma_result.track[i].kind \notin {"empty", "corrupt"}
        /\ AudibleChunks(ma_audio_chunks) # <<>> =>
               /\ ma_result.how # "raised"
               /\ AudibleChunks(ma_result.track)
                      = AudibleChunks(ma_audio_chunks)

(***************************************************************************)
(* text_to_speech.py: TextToSpeech.convert_to_speech over                   *)
(* GeminiMultiTTS.generate_audio (multi-speaker branch) and                *)
(* NovelAITTS.generate_audio (single-speaker branch).                      *)
(*                                                                         *)
(* The synthesis service is the environment: for each chunk it returns     *)
(* decodable audio ("mp3"), returns bytes that do not decode ("corrupt"),  *)
(* or fails ("raise": synthesize_speech raises, or the HTTP status is not  *)
(* 200).                                                                    *)
(***************************************************************************)

SynthOutcomes == {"mp3", "corrupt", "raise"}

Providers == {"geminimulti", "novelai"}

\* Largest number of chunks (geminimulti) or speaker parts (novelai).
MaxSynthChunks == 3

SynthInit ==
    /\ sy_provider \in Providers
    /\ sy_outcome \in UNION {[1..n -> SynthOutcomes] : n \in 0..MaxSynthChunks}
    /\ sy_idx = 1
    /\ sy_called = {}
    /\ sy_audio = <<>>
    /\ sy_combined = <<>>
    /\ sy_error = ""
    /\ sy_track = <<>>
    /\ sy_pc = "generate"
    /\ CleanIdle
    /\ ChunkIdle
    /\ MergeIdle
    /\ LongIdle
    /\ ContentIdle
    /\ TurnIdle
    /\ SplitIdle
    /\ MonoIdle
    /\ FailIdle

\* geminimulti.py 303-310, novelai.py 47-56: the service answers for the
\* chunk under way and its audio is appended.
SynthesizeChunk ==
    /\ sy_pc = "generate"
    /\ sy_idx <= Len(sy_outcome)
    /\ sy_outcome[sy_idx] # "raise"
    /\ sy_called' = sy_called \cup {sy_idx}
    /\ sy_audio' = Append(sy_audio, [id |-> sy_idx, kind |-> sy_outcome[sy_idx]])
    /\ sy_idx' = sy_idx + 1
    /\ UNCHANGED <<sy_provider, sy_outcome, sy_combined, sy_error, sy_track,
                   sy_pc>>
    /\ UNCHANGED <<cm_vars, ct_vars, ma_vars, lf_vars, cc_vars, tx_vars,
                   st_vars, mo_vars, fo_vars>>

\* geminimulti.py 303-307 with 313-315, novelai.py 57-58 with 66-67: the
\* call for the chunk under way fails; the handler around the whole loop
\* raises RuntimeError, which convert_to_speech (154-156) re-raises.
SynthesizeFails ==
    /\ sy_pc = "generate"
    /\ sy_idx <= Len(sy_outcome)
    /\ sy_outcome[sy_idx] = "raise"
    /\ sy_called' = sy_called \cup {sy_idx}
    /\ sy_error' = "RuntimeError: Failed to generate audio"
    /\ sy_pc' = "raised"
    /\ UNCHANGED <<sy_provider, sy_outcome, sy_idx, sy_audio, sy_combined,
                   sy_track>>
    /\ UNCHANGED <<cm_vars, ct_vars, ma_vars, lf_vars, cc_vars, tx_vars,
                   st_vars, mo_vars, fo_vars>>

\* geminimulti.py 311: return audio_chunks; text_to_speech.py 107-113: an
\* empty list raises ValueError, otherwise the decoding loop starts.
GenerateReturnMulti ==
    /\ sy_pc = "generate"
    /\ sy_provider = "geminimulti"
    /\ sy_idx > Len(sy_outcome)
    /\ IF sy_audio = <<>>
       THEN /\ sy_error' = "ValueError: No audio data chunks provided"
            /\ sy_pc' = "raised"
            /\ UNCHANGED sy_idx
       ELSE /\ sy_idx' = 1
            /\ sy_pc' = "process"
            /\ UNCHANGED sy_error
    /\ UNCHANGED <<sy_provider, sy_outcome, sy_called, sy_audio, sy_combined,
                   sy_track>>
    /\ UNCHANGED <<cm_vars, ct_vars, ma_vars, lf_vars, cc_vars, tx_vars,
                   st_vars, mo_vars, fo_vars>>

\* novelai.py 60-64: no part raises RuntimeError, otherwise the parts are
\* joined and returned.
GenerateReturnSingle ==
    /\ sy_pc = "generate"
    /\ sy_provider = "novelai"
    /\ sy_idx > Len(sy_outcome)
    /\ IF sy_audio = <<>>
       THEN /\ sy_error' = "RuntimeError: Failed to generate audio"
            /\ sy_pc' = "raised"
       ELSE /\ sy_pc' = "write"
            /\ UNCHANGED sy_error
    /\ UNCHANGED <<sy_provider, sy_outcome, sy_idx, sy_called, sy_audio,
                   sy_combined, sy_track>>
    /\ UNCHANGED <<cm_vars, ct_vars, ma_vars, lf_vars, cc_vars, tx_vars,
                   st_vars, mo_vars, fo_vars>>

\* text_to_speech.py 115-119 with 130-132: decode one chunk and add it to
\* combined; a chunk that does not decode raises and the error is re-raised.
DecodeChunk ==
    /\ sy_pc = "process"
    /\ sy_idx <= Len(sy_audio)
    /\ IF sy_audio[sy_idx].kind = "mp3"
       THEN /\ sy_combined' = Append(sy_combined, sy_audio[sy_idx])
            /\ sy_idx' = sy_idx + 1
            /\ UNCHANGED <<sy_error, sy_pc>>
       ELSE /\ sy_error' = "CouldntDecodeError"
            /\ sy_pc' = "raised"
            /\ UNCHANGED <<sy_combined, sy_idx>>
    /\ UNCHANGED <<sy_provider, sy_outcome, sy_called, sy_audio, sy_track>>
    /\ UNCHANGED <<cm_vars, ct_vars, ma_vars, lf_vars, cc_vars, tx_vars,
                   st_vars, mo_vars, fo_vars>>

\* text_to_speech.py 121-128: export combined to output_file.
ExportCombined ==
    /\ sy_pc = "process"
    /\ sy_idx > Len(sy_audio)
    /\ sy_track' = sy_combined
    /\ sy_pc' = "written"
    /\ UNCHANGED <<sy_provider, sy_outcome, sy_idx, sy_called, sy_audio,
                   sy_combined, sy_error>>
    /\ UNCHANGED <<cm_vars, ct_vars, ma_vars, lf_vars, cc_vars, tx_vars,
                   st_vars, mo_vars, fo_vars>>

\* text_to_speech.py 121-132: the export raises and the error is re-raised.
ExportCombinedFails ==
    /\ sy_pc = "process"
    /\ sy_idx > Len(sy_audio)
    /\ sy_error' = "ExportError"
    /\ sy_pc' = "raised"
    /\ UNCHANGED <<sy_provider, sy_outcome, sy_idx, sy_called, sy_audio,
                   sy_combined, sy_track>>
    /\ UNCHANGED <<cm_vars, ct_vars, ma_vars, lf_vars, cc_vars, tx_vars,
                   st_vars, mo_vars, fo_vars>>

\* text_to_speech.py 148-151: the single-speaker branch writes the joined
\* bytes to output_file as they are.
WriteAudioData ==
    /\ sy_pc = "write"
    /\ sy_track' = sy_audio
    /\ sy_pc' = "written"
    /\ UNCHANGED <<sy_provider, sy_outcome, sy_idx, sy_called, sy_audio,
                   sy_combined, sy_error>>
    /\ UNCHANGED <<cm_vars, ct_vars, ma_vars, lf_vars, cc_vars, tx_vars,
                   st_vars, mo_vars, fo_vars>>

SynthNext ==
    \/ SynthesizeChunk
    \/ SynthesizeFails
    \/ GenerateReturnMulti
    \/ GenerateReturnSingle
    \/ DecodeChunk
    \/ ExportCombined
    \/ ExportCombinedFails
    \/ WriteAudioData

SpecSynth == SynthInit /\ [][SynthNext]_vars

SynthDone == sy_pc \in {"raised", "written"}

\* C2: a failed synthesis call for one chunk never aborts the synthesis of
\* the other chunks: once the run is over every chunk has been handed to the
\* service, and when the service fails on chunk 2 of 3 only, no error
\* reaches the caller and the track is the audio of chunks 1 and 3.
C2_FailedChunkIsolated ==
    SynthDone =>
        /\ (\E i \in 1..Len(sy_outcome) : sy_outcome[i] = "raise")
               => sy_called = 1..Len(sy_outcome)
        /\ sy_outcome = <<"mp3", "raise", "mp3">>
               => /\ sy_pc = "written"
                  /\ sy_track = <<[id |-> 1, kind |-> "mp3"],
                                  [id |-> 3, kind |-> "mp3"]>>

(***************************************************************************)
(* content_generator.py: LongFormContentGenerator.generate_long_form and   *)
(* enhance_prompt_params, with the conversation template's long-form       *)
(* instructions.                                                           *)
(*                                                                         *)
(* A chunk of the source content is named by its position.  A response of  *)
(* the language model is a token sequence; the model is the environment    *)
(* and may answer anything.                                                *)
(***************************************************************************)

\* conversation.py 50-53: "Look at the last speaker in CONTEXT; if Person1
\* spoke last, start with Person2; if Person2 spoke last, start with
\* Person1".
AlternationRuleSame(last) == last

AlternationRule(last) ==
    CASE last = "Person1" -> "Person2"
      [] last = "Person2" -> "Person1"
      [] OTHER -> "none"

\* conversation.py 39-70: the format instructions, by the rules they state.
get_longform_instructions ==
    [tags |-> ConversationTags,
     start_with |-> [last \in {"Person1", "Person2"} |-> AlternationRule(last)],
     strict_alternation |-> TRUE]

\* content_generator.py 142-164: the rules of the part, by what they demand.
chunk_rules(part_idx, total_parts) ==
    IF part_idx = 0
    THEN [kind |-> "intro", welcome |-> TRUE, thank_you |-> FALSE,
          no_farewell |-> TRUE, no_introduction |-> FALSE]
    ELSE IF part_idx = total_parts - 1
    THEN [kind |-> "closing", welcome |-> FALSE, thank_you |-> TRUE,
          no_farewell |-> FALSE, no_introduction |-> FALSE]
    ELSE [kind |-> "body", welcome |-> FALSE, thank_you |-> FALSE,
          no_farewell |-> TRUE, no_introduction |-> TRUE]

NoPreviousContext == <<"No previous context - this is the start">>

\* content_generator.py 166-181: the instruction text, by its parts.
Instruction(part_idx, total_parts, chat_context, chunk) ==
    [format_instructions |-> get_longform_instructions,
     part |-> part_idx + 1,
     total |-> total_parts,
     previous_context |-> IF chat_context # <<>> THEN chat_context
                          ELSE NoPreviousContext,
     rules |-> chunk_rules(part_idx, total_parts),
     section |-> chunk]

\* Largest number of chunks of a long-form run.
MaxParts == 3

\* Answers of the language model: two closed turns ending on either
\* speaker, a run that ends inside an open Person2 or Person1 turn, an
\* answer without tags and an empty answer.
Responses ==
    {<<"<Person1>", "a", "</Person1>", "<Person2>", "a", "</Person2>">>,
     <<"<Person2>", "a", "</Person2>", "<Person1>", "a", "</Person1>">>,
     <<"<Person1>", "a", "</Person1>", "<Person2>", "a">>,
     <<"<Person2>", "a", "</Person2>", "<Person1>", "a">>,
     <<"a">>,
     <<>>}

\* d[key] = value on a dictionary, a function from its keys to their values.
SetItem(d, key, value) ==
    [k \in DOMAIN d \cup {key} |-> IF k = key THEN value ELSE d[k]]

\* content_generator.py 131-132 and 166: enhance_prompt_params writes the
\* context and the instruction into enhanced_params.  The value tells what
\* enhanced_params holds on return and whether it is the caller's own
\* dictionary, here without the copy of line 131.
enhance_prompt_params_in_place(prompt_params, part_idx, total_parts, chat_context, chunk) ==
    [enhanced |->
         SetItem(SetItem(prompt_params, "context", chat_context),
                 "instruction",
                 Instruction(part_idx, total_parts, chat_context, chunk)),
     shared |-> TRUE]

\* content_generator.py 117-184: enhanced_params = prompt_params.copy() is a
\* dictionary of its own.
enhance_prompt_params(prompt_params, part_idx, total_parts, chat_context, chunk) ==
    [enhanced |->
         SetItem(SetItem(prompt_params, "context", chat_context),
                 "instruction",
                 Instruction(part_idx, total_parts, chat_context, chunk)),
     shared |-> FALSE]

\* content_generator.py 238-246: enhanced_params after the call of
\* enhance_prompt_params and the assignment of input_text.
EnhancedParams(prompt_params, i, chunks, context) ==
    LET r == enhance_prompt_params(prompt_params, i, Len(chunks), context,
                                   chunks[i + 1])
    IN  [enhanced |-> SetItem(r.enhanced, "input_text", chunks[i + 1]),
         shared |-> r.shared]

\* The caller's dictionary after those writes: the same object when shared.
CallerParams(prompt_params, e) ==
    IF e.shared THEN e.enhanced ELSE prompt_params

\* content_generator.py 401-416: the dictionary generate_qa_content builds,
\* and a caller's dictionary that already has a context and an instruction.
BasePromptParams ==
    {[k \in {"input_text", "podcast_name"} |-> <<"caller", k>>],
     [k \in {"input_text", "podcast_name", "context", "instruction"}
         |-> <<"caller", k>>]}

\* content_generator.py 214-224: chunk_content returns at least one chunk.
LongInit ==
    /\ lf_chunks \in {[k \in 1..n |-> k] : n \in 1..MaxParts}
    /\ lf_i = 0
    /\ lf_chat_context = <<>>
    /\ lf_parts = <<>>
    /\ lf_instructions = <<>>
    /\ lf_final = <<>>
    /\ lf_calls = <<>>
    /\ lf_save \in BOOLEAN
    /\ lf_response = <<>>
    /\ lf_file = <<>>
    /\ lf_error = ""
    /\ lf_prompt_params \in BasePromptParams
    /\ lf_enhanced = <<>>
    /\ lf_pc = "loop"
    /\ CleanIdle
    /\ ChunkIdle
    /\ MergeIdle
    /\ SynthIdle
    /\ ContentIdle
    /\ TurnIdle
    /\ SplitIdle
    /\ MonoIdle
    /\ FailIdle

\* A join that loses the order of the parts.
RECURSIVE JoinLinesReversed(_)
JoinLinesReversed(parts) ==
    IF parts = <<>> THEN <<>>
    ELSE IF Len(parts) = 1 THEN parts[1]
    ELSE JoinLinesReversed(Tail(parts)) \o <<"\n">> \o parts[1]

\* "\n".join(parts)
RECURSIVE JoinLines(_)
JoinLines(parts) ==
    IF parts = <<>> THEN <<>>
    ELSE IF Len(parts) = 1 THEN parts[1]
    ELSE parts[1] \o <<"\n">> \o JoinLines(Tail(parts))

\* The whole transcript so far, the context a cumulative policy would carry.
CarriedContextCumulative(i, conversation_parts, chat_context) ==
    IF i > 0 THEN JoinLines(conversation_parts)
    ELSE chat_context

\* content_generator.py 233: the context carried into chunk i > 0.
CarriedContext(i, conversation_parts, chat_context) ==
    IF i > 0 THEN conversation_parts[Len(conversation_parts)]
    ELSE chat_context

\* content_generator.py 239-257: what one call of the chain is given
\* (params_without_instruction) and how it ended.
GenerationCall(context, chunk, outcome) ==
    [context |-> context, input_text |-> chunk, outcome |-> outcome]

\* content_generator.py 226-262: one iteration of the loop.
LongFormChunk ==
    /\ lf_pc = "loop"
    /\ lf_i < Len(lf_chunks)
    /\ \E response \in Responses :
           LET context == CarriedContext(lf_i, lf_parts, lf_chat_context)
           IN  /\ lf_chat_context' = context
               /\ lf_instructions' =
                      Append(lf_instructions,
                             Instruction(lf_i, Len(lf_chunks), context,
                                         lf_chunks[lf_i + 1]))
               /\ lf_calls' = Append(lf_calls,
                                     GenerationCall(context, lf_chunks[lf_i + 1],
                                                    "returned"))
               /\ lf_parts' = Append(lf_parts, response)
               /\ LET e == EnhancedParams(lf_prompt_params, lf_i, lf_chunks,
                                          context)
                  IN  /\ lf_enhanced' = e.enhanced
                      /\ lf_prompt_params' = CallerParams(lf_prompt_params, e)
    /\ lf_i' = lf_i + 1
    /\ UNCHANGED <<lf_chunks, lf_final, lf_save, lf_response, lf_file,
                   lf_error, lf_pc>>
    /\ UNCHANGED <<cm_vars, ct_vars, ma_vars, sy_vars, cc_vars, tx_vars,
                   st_vars, mo_vars, fo_vars>>

\* content_generator.py 264-268: join the parts and return.
LongFormReturn ==
    /\ lf_pc = "loop"
    /\ lf_i = Len(lf_chunks)
    /\ lf_final' = JoinLines(lf_parts)
    /\ lf_pc' = "done"
    /\ UNCHANGED <<lf_chunks, lf_i, lf_chat_context, lf_parts, lf_instructions,
                   lf_calls, lf_save, lf_response, lf_file, lf_error,
                   lf_prompt_params, lf_enhanced>>
    /\ UNCHANGED <<cm_vars, ct_vars, ma_vars, sy_vars, cc_vars, tx_vars,
                   st_vars, mo_vars, fo_vars>>

\* What a partial-result policy would do when a call raises: hand back the
\* parts obtained so far.
AfterCallRaisesPartial(conversation_parts) ==
    [pc |-> "returned", error |-> "", response |-> JoinLines(conversation_parts)]

\* content_generator.py 257 with 430 and 450-452: generate_long_form has no
\* handler, generate_qa_content logs and re-raises; nothing is returned.
AfterCallRaises(conversation_parts) ==
    [pc |-> "raised", error |-> "generation error", response |-> <<>>]

\* content_generator.py 226-257: the call for the chunk under way raises.
LongFormCallRaises ==
    /\ lf_pc = "loop"
    /\ lf_i < Len(lf_chunks)
    /\ LET context == CarriedContext(lf_i, lf_parts, lf_chat_context)
           after == AfterCallRaises(lf_parts)
       IN  /\ lf_chat_context' = context
           /\ lf_instructions' =
                  Append(lf_instructions,
                         Instruction(lf_i, Len(lf_chunks), context,
                                     lf_chunks[lf_i + 1]))
           /\ lf_calls' = Append(lf_calls,
                                 GenerationCall(context, lf_chunks[lf_i + 1],
                                                "raised"))
           /\ LET e == EnhancedParams(lf_prompt_params, lf_i, lf_chunks,
                                      context)
              IN  /\ lf_enhanced' = e.enhanced
                  /\ lf_prompt_params' = CallerParams(lf_prompt_params, e)
           /\ lf_pc' = after.pc
           /\ lf_error' = after.error
           /\ lf_response' = after.response
    /\ UNCHANGED <<lf_chunks, lf_i, lf_parts, lf_final, lf_save, lf_file>>
    /\ UNCHANGED <<cm_vars, ct_vars, ma_vars, sy_vars, cc_vars, tx_vars,
                   st_vars, mo_vars, fo_vars>>

\* content_generator.py 430-448: clean the transcript, save it when a path
\* is given, return it.
GenerateQaReturn ==
    /\ lf_pc = "done"
    /\ lf_response' = clean_markup(lf_final, ConversationTags)
    /\ lf_file' = IF lf_save THEN Append(lf_file, lf_response') ELSE lf_file
    /\ lf_pc' = "returned"
    /\ UNCHANGED <<lf_chunks, lf_i, lf_chat_context, lf_parts, lf_instructions,
                   lf_final, lf_calls, lf_save, lf_error, lf_prompt_params,
                   lf_enhanced>>
    /\ UNCHANGED <<cm_vars, ct_vars, ma_vars, sy_vars, cc_vars, tx_vars,
                   st_vars, mo_vars, fo_vars>>

LongNext ==
    \/ LongFormChunk
    \/ LongFormCallRaises
    \/ LongFormReturn
    \/ GenerateQaReturn

SpecLong == LongInit /\ [][LongNext]_vars

SpeakerTags == {"<Person1>", "</Person1>", "<Person2>", "</Person2>"}

\* The speaker of the last speaker tag present in a text, "none" without one.
LastSpeaker(text) ==
    LET J == {j \in 1..Len(text) : text[j] \in SpeakerTags}
    IN  IF J = {} THEN "none"
        ELSE TagWord(text[CHOOSE j \in J : \A k \in J : k <= j])

\* The opening speaker an instruction requires: its alternation rule applied
\* to the last speaker of the previous context it quotes.
RequiredOpener(instruction) ==
    LET last == LastSpeaker(instruction.previous_context)
    IN  IF last \in DOMAIN instruction.format_instructions.start_with
        THEN instruction.format_instructions.start_with[last]
        ELSE "none"

OtherSpeaker(speaker) == IF speaker = "Person1" THEN "Person2" ELSE "Person1"

\* C9: for every chunk i > 0 whose carried context (the response to chunk
\* i-1) holds a speaker tag, the instruction built for chunk i requires as
\* opening speaker the one that differs from the last speaker tag of that
\* context; after a response ending on Person2 it requires Person1.
C9_OpenerAlternates ==
    \A k \in 2..Len(lf_instructions) :
        LastSpeaker(lf_parts[k - 1]) # "none" =>
            /\ RequiredOpener(lf_instructions[k])
                   = OtherSpeaker(LastSpeaker(lf_parts[k - 1]))
            /\ LastSpeaker(lf_parts[k - 1]) = "Person2"
                   => RequiredOpener(lf_instructions[k]) = "Person1"

\* Three chunks, the response to chunk 0 ends inside an open Person2 turn,
\* and the instruction for chunk 1 has been built and requires Person1.
C9_Witness ==
    /\ Len(lf_chunks) = 3
    /\ Len(lf_instructions) >= 2
    /\ lf_parts[1] = <<"<Person1>", "a", "</Person1>", "<Person2>", "a">>
    /\ RequiredOpener(lf_instructions[2]) = "Person1"

\* C10: the instruction built for chunk i is the intro instruction exactly
\* when i = 0, the closing instruction exactly when i = n-1 and the body
\* instruction exactly when 0 < i < n-1; the last chunk of every run, a
\* one-chunk run included, gets the closing instruction.
C10_InstructionByPosition ==
    \A k \in 1..Len(lf_instructions) :
        LET i == k - 1
            n == Len(lf_chunks)
            rules == lf_instructions[k].rules
        IN  /\ (rules.kind = "intro" /\ rules.welcome /\ ~rules.thank_you)
                   <=> (i = 0)
            /\ (rules.kind = "closing" /\ rules.thank_you) <=> (i = n - 1)
            /\ (rules.kind = "body" /\ rules.no_introduction
                    /\ rules.no_farewell) <=> (0 < i /\ i < n - 1)

\* C11: the context given to the call for chunk 0 is empty and the context
\* given to the call for chunk i > 0 is exactly the raw response returned
\* for chunk i-1, never the transcript so far.
C11_ContextIsPreviousResponse ==
    \A k \in 1..Len(lf_calls) :
        /\ k = 1 => lf_calls[k].context = <<>>
        /\ k > 1 => lf_calls[k].context = lf_parts[k - 1]

\* The call for the third chunk was made after two different responses.
C11_Witness ==
    /\ Len(lf_calls) = 3
    /\ lf_parts[1] # lf_parts[2]
    /\ lf_parts[2] # <<>>
    /\ lf_calls[3].context = lf_parts[2]

\* The segments of a transcript between its newlines, scanning from i with
\* the segment under way starting at start.
RECURSIVE Segments(_, _, _)
Segments(text, i, start) ==
    IF i > Len(text) THEN <<SubSeq(text, start, Len(text))>>
    ELSE IF text[i] = "\n"
         THEN <<SubSeq(text, start, i - 1)>> \o Segments(text, i + 1, i + 1)
         ELSE Segments(text, i + 1, start)

\* C12: one generation call per chunk, in chunk order, and the transcript
\* returned by generate_long_form is the responses joined by one newline in
\* that order: its i-th segment is the response to chunk i.
C12_OneCallPerChunkInOrder ==
    /\ \A k \in 1..Len(lf_calls) : lf_calls[k].input_text = lf_chunks[k]
    /\ lf_pc \in {"done", "returned"} =>
           /\ Len(lf_calls) = Len(lf_chunks)
           /\ Len(lf_parts) = Len(lf_chunks)
           /\ Segments(lf_final, 1, 1) = lf_parts

\* A run over three chunks with three different responses has returned.
C12_Witness ==
    /\ lf_pc = "done"
    /\ Len(lf_chunks) = 3
    /\ lf_parts[1] # lf_parts[2]
    /\ lf_parts[2] # lf_parts[3]
    /\ lf_parts[1] # lf_parts[3]

\* C13: when the call for chunk k raises there is no retry and no later
\* call, the error reaches the caller, and nothing is returned or written,
\* not even the responses already obtained.
C13_ErrorDiscardsTranscript ==
    /\ \A k \in 1..Len(lf_calls) :
           lf_calls[k].outcome = "raised" =>
               /\ k = Len(lf_calls)
               /\ lf_pc = "raised"
    /\ lf_pc = "raised" =>
           /\ lf_error # ""
           /\ lf_response = <<>>
           /\ lf_file = <<>>
           /\ lf_final = <<>>
           /\ \A k \in 1..Len(lf_calls) : lf_calls[k].input_text = lf_chunks[k]

\* The third call raised after two responses were obtained, with a path to
\* save to.
C13_Witness ==
    /\ lf_pc = "raised"
    /\ lf_save
    /\ Len(lf_calls) = 3
    /\ Len(lf_parts) = 2
    /\ lf_parts[1] # <<>>

\* The keys a chunk iteration writes.
ChunkKeys == {"context", "instruction", "input_text"}

\* C29: no step of generate_long_form, whether the call of the chunk
\* returns or raises, changes the caller's prompt_params; the context, the
\* instruction and the input_text of the chunk are in enhanced_params, which
\* holds the caller's value under every other key.
C29_BaseParamsNeverMutated ==
    [][/\ lf_prompt_params' = lf_prompt_params
       /\ lf_calls' # lf_calls =>
              LET call == lf_calls'[Len(lf_calls')]
              IN  /\ lf_enhanced'["context"] = call.context
                  /\ lf_enhanced'["input_text"] = call.input_text
                  /\ lf_enhanced'["instruction"]
                         = lf_instructions'[Len(lf_instructions')]
                  /\ DOMAIN lf_enhanced'
                         = DOMAIN lf_prompt_params \cup ChunkKeys
                  /\ \A k \in DOMAIN lf_prompt_params \ ChunkKeys :
                         lf_enhanced'[k] = lf_prompt_params[k]]_vars

\* C29 witness: the second chunk has its context and its input_text in
\* enhanced_params while the caller's dictionary has no context and still
\* has the caller's input_text.
C29_Witness ==
    /\ lf_i = 2
    /\ lf_enhanced["input_text"] = lf_chunks[2]
    /\ lf_enhanced["context"] = lf_parts[1]
    /\ lf_parts[1] # <<>>
    /\ "context" \notin DOMAIN lf_prompt_params
    /\ lf_prompt_params["input_text"] = <<"caller", "input_text">>

(***************************************************************************)
(* content_generator.py: LongFormContentGenerator.__calculate_chunk_size   *)
(* and chunk_content.                                                      *)
(*                                                                         *)
(* The source text is a sequence of tokens: the characters "a", "." and    *)
(* " ", and a word of nine letters that holds neither "." nor " ".         *)
(***************************************************************************)

LongWord == "wwwwwwwww"

\* Two longer words, of 357 and of 333 characters.
Word357 == "w357"
Word333 == "w333"

\* len() of one token.
CharLen(tok) ==
    IF tok = LongWord THEN 9
    ELSE IF tok = Word357 THEN 357
    ELSE IF tok = Word333 THEN 333
    ELSE 1

\* len() of a text.
RECURSIVE CharCount(_)
CharCount(text) ==
    IF text = <<>> THEN 0 ELSE CharLen(Head(text)) + CharCount(Tail(text))

\* content_generator.py 85-95
calculate_chunk_size(input_content, min_chunk_size, max_num_chunks) ==
    LET input_length == CharCount(input_content)
        maximum_chunk_size == input_length \div max_num_chunks
    IN  IF input_length <= min_chunk_size THEN input_length
        ELSE IF maximum_chunk_size >= min_chunk_size THEN maximum_chunk_size
        ELSE input_length \div (input_length \div min_chunk_size)

\* content_generator.py 99: input_content.split('. '), scanning from i with
\* the sentence under way starting at start.
RECURSIVE SplitSentences(_, _, _)
SplitSentences(text, i, start) ==
    IF i > Len(text) THEN <<SubSeq(text, start, Len(text))>>
    ELSE IF i < Len(text) /\ text[i] = "." /\ text[i + 1] = " "
         THEN <<SubSeq(text, start, i - 1)>>
                  \o SplitSentences(text, i + 2, i + 2)
         ELSE SplitSentences(text, i + 1, start)

\* '. '.join(sentences)
RECURSIVE JoinSentences(_)
JoinSentences(sentences) ==
    IF sentences = <<>> THEN <<>>
    ELSE IF Len(sentences) = 1 THEN sentences[1]
    ELSE sentences[1] \o <<".", " ">> \o JoinSentences(Tail(sentences))

\* content_generator.py 107 and 114: '. '.join(current_chunk) + '.'
ClosedChunk(current_chunk) == JoinSentences(current_chunk) \o <<".">>

\* Longest source text enumerated character by character.
MaxTextLen == 4

\* Largest number of sentences of the longer source texts.
MaxSentences == 5

ShortTexts == UNION {[1..n -> {"a", ".", " "}] : n \in 0..MaxTextLen}

SentenceTexts ==
    {JoinSentences(ss) :
        ss \in UNION {[1..n -> {<<"a">>, <<LongWord>>}] : n \in 1..MaxSentences}}

\* A source text of 5000 characters at 14 sentences: all but the last have 357
\* characters and are followed by ". ", the last has 333.
LongSourceSentences == 14
LongSource ==
    JoinSentences([n \in 1..LongSourceSentences |->
                      IF n < LongSourceSentences THEN <<Word357>>
                      ELSE <<Word333>>])

\* content_generator.py 82-83: the defaults of the configuration.
DefaultMaxNumChunks == 7
DefaultMinChunkSize == 600

MinChunkSizes == {1, 3, DefaultMinChunkSize}
MaxNumChunks == {1, 3, DefaultMaxNumChunks}

ContentInit ==
    /\ cc_input \in ShortTexts \cup SentenceTexts \cup {LongSource}
    /\ cc_min \in MinChunkSizes
    /\ cc_max \in MaxNumChunks
    /\ cc_chunk_size = 0
    /\ cc_sentences = <<>>
    /\ cc_idx = 0
    /\ cc_current = <<>>
    /\ cc_length = 0
    /\ cc_chunks = <<>>
    /\ cc_pc = "size"
    /\ CleanIdle
    /\ ChunkIdle
    /\ MergeIdle
    /\ SynthIdle
    /\ LongIdle
    /\ TurnIdle
    /\ SplitIdle
    /\ MonoIdle
    /\ FailIdle

\* content_generator.py 215: chunk_size = self.__calculate_chunk_size(...)
CalculateChunkSize ==
    /\ cc_pc = "size"
    /\ cc_chunk_size' = calculate_chunk_size(cc_input, cc_min, cc_max)
    /\ cc_pc' = "split"
    /\ UNCHANGED <<cc_input, cc_min, cc_max, cc_sentences, cc_idx, cc_current,
                   cc_length, cc_chunks>>
    /\ UNCHANGED <<cm_vars, ct_vars, ma_vars, sy_vars, lf_vars, tx_vars,
                   st_vars, mo_vars, fo_vars>>

\* content_generator.py 99-102
ChunkContentSplit ==
    /\ cc_pc = "split"
    /\ cc_sentences' = SplitSentences(cc_input, 1, 1)
    /\ cc_idx' = 1
    /\ cc_current' = <<>>
    /\ cc_length' = 0
    /\ cc_chunks' = <<>>
    /\ cc_pc' = "loop"
    /\ UNCHANGED <<cc_input, cc_min, cc_max, cc_chunk_size>>
    /\ UNCHANGED <<cm_vars, ct_vars, ma_vars, sy_vars, lf_vars, tx_vars,
                   st_vars, mo_vars, fo_vars>>

\* content_generator.py 104-111: one iteration of the loop.
ChunkContentSentence ==
    /\ cc_pc = "loop"
    /\ cc_idx <= Len(cc_sentences)
    /\ LET sentence == cc_sentences[cc_idx]
           sentence_length == CharCount(sentence)
       IN  IF cc_length + sentence_length > cc_chunk_size /\ cc_current # <<>>
           THEN /\ cc_chunks' = Append(cc_chunks, ClosedChunk(cc_current))
                /\ cc_current' = <<sentence>>
                /\ cc_length' = sentence_length
           ELSE /\ cc_chunks' = cc_chunks
                /\ cc_current' = Append(cc_current, sentence)
                /\ cc_length' = cc_length + sentence_length
    /\ cc_idx' = cc_idx + 1
    /\ UNCHANGED <<cc_input, cc_min, cc_max, cc_chunk_size, cc_sentences, cc_pc>>
    /\ UNCHANGED <<cm_vars, ct_vars, ma_vars, sy_vars, lf_vars, tx_vars,
                   st_vars, mo_vars, fo_vars>>

\* content_generator.py 113-115
ChunkContentReturn ==
    /\ cc_pc = "loop"
    /\ cc_idx > Len(cc_sentences)
    /\ cc_chunks' = IF cc_current # <<>>
                    THEN Append(cc_chunks, ClosedChunk(cc_current))
                    ELSE cc_chunks
    /\ cc_pc' = "done"
    /\ UNCHANGED <<cc_input, cc_min, cc_max, cc_chunk_size, cc_sentences,
                   cc_idx, cc_current, cc_length>>
    /\ UNCHANGED <<cm_vars, ct_vars, ma_vars, sy_vars, lf_vars, tx_vars,
                   st_vars, mo_vars, fo_vars>>

ContentNext ==
    \/ CalculateChunkSize
    \/ ChunkContentSplit
    \/ ChunkContentSentence
    \/ ChunkContentReturn

SpecContent == ContentInit /\ [][ContentNext]_vars

\* C14: a source text no longer than min_chunk_size comes back as exactly
\* one chunk, equal to the text.
C14_ShortTextIsOneChunk ==
    (cc_pc = "done" /\ CharCount(cc_input) <= cc_min)
        => cc_chunks = <<cc_input>>

\* C15: the chunks joined in order with ". " between them give back the
\* source text, nothing lost, duplicated, reordered or added.
C15_ChunksRebuildText ==
    cc_pc = "done" => JoinSentences(cc_chunks) = cc_input

\* C16: the number of chunks never exceeds max_num_chunks + 1.
C16_ChunkCountBounded ==
    cc_pc = "done" => Len(cc_chunks) <= cc_max + 1

\* C17: the empty source text gives exactly one chunk, the empty string.
C17_EmptyTextIsOneEmptyChunk ==
    (cc_pc = "done" /\ cc_input = <<>>) => cc_chunks = << <<>> >>

\* C25: for a source text longer than min_chunk_size the target size is at
\* least min_chunk_size, and every chunk except the final one has at least
\* min_chunk_size characters.
C25_ChunksAtLeastMinSize ==
    (cc_pc = "done" /\ CharCount(cc_input) > cc_min) =>
        /\ cc_chunk_size >= cc_min
        /\ \A i \in 1..(Len(cc_chunks) - 1) :
               CharCount(cc_chunks[i]) >= cc_min

\* The sentences a chunk holds: the chunk without its final full stop, split
\* at ". " again.
SentencesOf(chunk) == SplitSentences(SubSeq(chunk, 1, Len(chunk) - 1), 1, 1)

\* C26: a chunk of two or more sentences has at most as many characters as
\* the target chunk size; for the source of 5000 characters with the default
\* configuration (7 chunks, 600 characters) the target is 714.
C26_MultiSentenceChunkWithinTarget ==
    cc_pc = "done" =>
        /\ \A i \in 1..Len(cc_chunks) :
               Len(SentencesOf(cc_chunks[i])) >= 2 =>
                   CharCount(cc_chunks[i]) <= cc_chunk_size
        /\ (/\ cc_input = LongSource
            /\ cc_max = DefaultMaxNumChunks
            /\ cc_min = DefaultMinChunkSize) => cc_chunk_size = 714

(***************************************************************************)
(* tts/providers/openai.py and gemini.py: generate_audio with two voices;  *)
(* tts/providers/novelai.py: NovelAITTS.generate_audio.                    *)
(*                                                                         *)
(* A conversation transcript is written from a list of turns, each with a  *)
(* speaker and a content; the word of a turn names its position, so that   *)
(* a segment of the track can be traced to its turn.  A segment is the     *)
(* audio of one synthesis call: the text spoken and the voice used.        *)
(***************************************************************************)

\* Largest number of turns of a transcript.
MaxTurns == 3

TurnWords == <<"t1", "t2", "t3", "t4", "t5">>

\* The contents a turn at position i may have: a word, a word inside
\* whitespace, nothing.
TurnContentsAt(i) == {<<TurnWords[i]>>, <<" ", TurnWords[i], "\n">>, <<>>}

TurnLists ==
    UNION {{t \in [1..n -> [speaker : {"Person1", "Person2"},
                            content : UNION {TurnContentsAt(i) : i \in 1..n}]] :
               \A i \in 1..n : t[i].content \in TurnContentsAt(i)} :
           n \in 1..MaxTurns}

\* The transcript text of a list of turns.
RECURSIVE Render(_)
Render(turns) ==
    IF turns = <<>> THEN <<>>
    ELSE <<OpenTag(Head(turns).speaker)>> \o Head(turns).content
             \o <<CloseTag(Head(turns).speaker)>> \o Render(Tail(turns))

\* re.findall(r'<tag>(.*?)</tag>', text, re.DOTALL) from position i: the
\* leftmost opening tag that has a closing tag after it, the content up to
\* the first such closing tag, then on from behind it.
RECURSIVE FindAllTag(_, _, _)
FindAllTag(text, i, tag) ==
    LET j == FirstIn(text, i, {OpenTag(tag)})
        k == IF j = 0 THEN 0 ELSE FirstIn(text, j + 1, {CloseTag(tag)})
    IN  IF j = 0 \/ k = 0 THEN <<>>
        ELSE <<SubSeq(text, j + 1, k - 1)>> \o FindAllTag(text, k + 1, tag)

\* novelai.py 29-42 with both alternatives searched one after the other
\* instead of together.
FindSpeakerPartsByTag(text, i, voice, voice2) ==
    LET Voiced(matches, v) ==
            [m \in 1..Len(matches) |-> [text |-> Strip(matches[m]), voice |-> v]]
    IN  SelectSeq(Voiced(FindAllTag(text, i, "Person1"), voice)
                      \o Voiced(FindAllTag(text, i, "Person2"), voice2),
                  LAMBDA part : part.text # <<>>)

\* novelai.py 29-42: re.finditer over
\* <Person1>(.*?)</Person1>|<Person2>(.*?)</Person2> from position i; at
\* each position the first alternative is tried before the second; a part
\* is kept when its stripped text is not empty.
RECURSIVE FindSpeakerParts(_, _, _, _)
FindSpeakerParts(text, i, voice, voice2) ==
    IF i > Len(text) THEN <<>>
    ELSE LET tag == IF text[i] = "<Person1>" THEN "Person1"
                    ELSE IF text[i] = "<Person2>" THEN "Person2"
                    ELSE "none"
             k == IF tag = "none" THEN 0
                  ELSE FirstIn(text, i + 1, {CloseTag(tag)})
         IN  IF k = 0 THEN FindSpeakerParts(text, i + 1, voice, voice2)
             ELSE LET text_part == Strip(SubSeq(text, i + 1, k - 1))
                      part == [text |-> text_part,
                               voice |-> IF tag = "Person1" THEN voice
                                         ELSE voice2]
                  IN  (IF text_part # <<>> THEN <<part>> ELSE <<>>)
                          \o FindSpeakerParts(text, k + 1, voice, voice2)

\* novelai.py 41: voice2 or "Aini"
VoiceOrDefault(voice2) == IF voice2 = "" THEN "Aini" ELSE voice2

\* openai.py 70-76, gemini.py 134-149: zip(person1_audio, person2_audio),
\* each pair added Person1 first.
RECURSIVE ZipPairs(_, _)
ZipPairs(a1, a2) ==
    IF a1 = <<>> \/ a2 = <<>> THEN <<>>
    ELSE <<Head(a1), Head(a2)>> \o ZipPairs(Tail(a1), Tail(a2))

\* openai.py 69-81, gemini.py 131-158: the pairs, then the last Person1
\* audio when Person1 has more.
MergeTwoVoices(person1_audio, person2_audio) ==
    ZipPairs(person1_audio, person2_audio)
        \o (IF Len(person1_audio) > Len(person2_audio)
            THEN <<person1_audio[Len(person1_audio)]>>
            ELSE <<>>)

AllSpeakerTags ==
    {"<Person1>", "</Person1>", "<Person2>", "</Person2>",
     "<Speaker>", "</Speaker>"}

TurnInit ==
    /\ tx_provider \in {"openai", "gemini", "novelai"}
    /\ tx_turns \in TurnLists
    /\ tx_text = Render(tx_turns)
    /\ tx_p1 = <<>>
    /\ tx_p2 = <<>>
    /\ tx_a1 = <<>>
    /\ tx_a2 = <<>>
    /\ tx_track = <<>>
    /\ tx_pc = "start"
    /\ CleanIdle
    /\ ChunkIdle
    /\ MergeIdle
    /\ SynthIdle
    /\ LongIdle
    /\ ContentIdle
    /\ SplitIdle
    /\ MonoIdle
    /\ FailIdle

\* openai.py 40-46, gemini.py 66-72: the two-voice branch, both findall.
ExtractMatches ==
    /\ tx_pc = "start"
    /\ tx_provider \in {"openai", "gemini"}
    /\ \E i \in 1..Len(tx_text) : tx_text[i] = "<Person1>"
    /\ tx_p1' = FindAllTag(tx_text, 1, "Person1")
    /\ tx_p2' = FindAllTag(tx_text, 1, "Person2")
    /\ tx_pc' = "synth"
    /\ UNCHANGED <<tx_provider, tx_turns, tx_text, tx_a1, tx_a2, tx_track>>
    /\ UNCHANGED <<cm_vars, ct_vars, ma_vars, sy_vars, lf_vars, cc_vars,
                   st_vars, mo_vars, fo_vars>>

\* openai.py 88-96: no <Person1> in the text; the tags are removed and the
\* whole text is spoken by the first voice.  gemini.py 170-230: the
\* <Speaker> sections are spoken by the first voice and merged.
SingleVoice ==
    /\ tx_pc = "start"
    /\ tx_provider \in {"openai", "gemini"}
    /\ \A i \in 1..Len(tx_text) : tx_text[i] # "<Person1>"
    /\ tx_track' =
           IF tx_provider = "openai"
           THEN <<[text |-> Without(tx_text, AllSpeakerTags), voice |-> "voice"]>>
           ELSE LET m == FindAllTag(tx_text, 1, "Speaker")
                IN  [k \in 1..Len(m) |-> [text |-> Strip(m[k]), voice |-> "voice"]]
    /\ tx_pc' = "done"
    /\ UNCHANGED <<tx_provider, tx_turns, tx_text, tx_p1, tx_p2, tx_a1, tx_a2>>
    /\ UNCHANGED <<cm_vars, ct_vars, ma_vars, sy_vars, lf_vars, cc_vars,
                   st_vars, mo_vars, fo_vars>>

\* novelai.py 26-42: the parts, in the order of the matches.
ExtractParts ==
    /\ tx_pc = "start"
    /\ tx_provider = "novelai"
    /\ tx_p1' = FindSpeakerParts(tx_text, 1, "voice", VoiceOrDefault("voice2"))
    /\ tx_pc' = "synth"
    /\ UNCHANGED <<tx_provider, tx_turns, tx_text, tx_p2, tx_a1, tx_a2, tx_track>>
    /\ UNCHANGED <<cm_vars, ct_vars, ma_vars, sy_vars, lf_vars, cc_vars,
                   st_vars, mo_vars, fo_vars>>

\* openai.py 49-56, gemini.py 75-98: one call for the next Person1 match.
SynthesizePerson1 ==
    /\ tx_pc = "synth"
    /\ tx_provider \in {"openai", "gemini"}
    /\ Len(tx_a1) < Len(tx_p1)
    /\ tx_a1' = Append(tx_a1, [text |-> Strip(tx_p1[Len(tx_a1) + 1]),
                               voice |-> "voice"])
    /\ UNCHANGED <<tx_provider, tx_turns, tx_text, tx_p1, tx_p2, tx_a2,
                   tx_track, tx_pc>>
    /\ UNCHANGED <<cm_vars, ct_vars, ma_vars, sy_vars, lf_vars, cc_vars,
                   st_vars, mo_vars, fo_vars>>

\* openai.py 59-66, gemini.py 101-124: one call for the next Person2 match,
\* once every Person1 match has its audio.
SynthesizePerson2 ==
    /\ tx_pc = "synth"
    /\ tx_provider \in {"openai", "gemini"}
    /\ Len(tx_a1) = Len(tx_p1)
    /\ Len(tx_a2) < Len(tx_p2)
    /\ tx_a2' = Append(tx_a2, [text |-> Strip(tx_p2[Len(tx_a2) + 1]),
                               voice |-> "voice2"])
    /\ UNCHANGED <<tx_provider, tx_turns, tx_text, tx_p1, tx_p2, tx_a1,
                   tx_track, tx_pc>>
    /\ UNCHANGED <<cm_vars, ct_vars, ma_vars, sy_vars, lf_vars, cc_vars,
                   st_vars, mo_vars, fo_vars>>

\* novelai.py 45-56: one request for the next part, answered with 200.
SynthesizePart ==
    /\ tx_pc = "synth"
    /\ tx_provider = "novelai"
    /\ Len(tx_a1) < Len(tx_p1)
    /\ tx_a1' = Append(tx_a1, tx_p1[Len(tx_a1) + 1])
    /\ UNCHANGED <<tx_provider, tx_turns, tx_text, tx_p1, tx_p2, tx_a2,
                   tx_track, tx_pc>>
    /\ UNCHANGED <<cm_vars, ct_vars, ma_vars, sy_vars, lf_vars, cc_vars,
                   st_vars, mo_vars, fo_vars>>

\* openai.py 98-99, gemini.py 232-234, novelai.py 57-58 and 66-67: the call
\* under way fails and RuntimeError is raised.
TurnSynthesisFails ==
    /\ tx_pc = "synth"
    /\ Len(tx_a1) < Len(tx_p1) \/ Len(tx_a2) < Len(tx_p2)
    /\ tx_pc' = "raised"
    /\ UNCHANGED <<tx_provider, tx_turns, tx_text, tx_p1, tx_p2, tx_a1, tx_a2,
                   tx_track>>
    /\ UNCHANGED <<cm_vars, ct_vars, ma_vars, sy_vars, lf_vars, cc_vars,
                   st_vars, mo_vars, fo_vars>>

\* openai.py 68-86, gemini.py 126-168: merge and export.
MergeVoices ==
    /\ tx_pc = "synth"
    /\ tx_provider \in {"openai", "gemini"}
    /\ Len(tx_a1) = Len(tx_p1)
    /\ Len(tx_a2) = Len(tx_p2)
    /\ tx_track' = MergeTwoVoices(tx_a1, tx_a2)
    /\ tx_pc' = "done"
    /\ UNCHANGED <<tx_provider, tx_turns, tx_text, tx_p1, tx_p2, tx_a1, tx_a2>>
    /\ UNCHANGED <<cm_vars, ct_vars, ma_vars, sy_vars, lf_vars, cc_vars,
                   st_vars, mo_vars, fo_vars>>

\* novelai.py 60-64: no part raises, otherwise the parts are joined.
JoinParts ==
    /\ tx_pc = "synth"
    /\ tx_provider = "novelai"
    /\ Len(tx_a1) = Len(tx_p1)
    /\ IF tx_a1 = <<>>
       THEN /\ tx_pc' = "raised"
            /\ UNCHANGED tx_track
       ELSE /\ tx_track' = tx_a1
            /\ tx_pc' = "done"
    /\ UNCHANGED <<tx_provider, tx_turns, tx_text, tx_p1, tx_p2, tx_a1, tx_a2>>
    /\ UNCHANGED <<cm_vars, ct_vars, ma_vars, sy_vars, lf_vars, cc_vars,
                   st_vars, mo_vars, fo_vars>>

TurnNext ==
    \/ ExtractMatches
    \/ SingleVoice
    \/ ExtractParts
    \/ SynthesizePerson1
    \/ SynthesizePerson2
    \/ SynthesizePart
    \/ TurnSynthesisFails
    \/ MergeVoices
    \/ JoinParts

SpecTurns == TurnInit /\ [][TurnNext]_vars

VoiceOf(speaker) == IF speaker = "Person1" THEN "voice" ELSE "voice2"

\* The segment a turn should give: its stripped content in its own voice.
SegmentOf(turn) == [text |-> Strip(turn.content), voice |-> VoiceOf(turn.speaker)]

\* The segments of all the turns, in transcript order.
SegmentsInOrder(turns) == [i \in 1..Len(turns) |-> SegmentOf(turns[i])]

\* Whether sequence a is a subsequence of sequence b (same relative order).
RECURSIVE IsSubsequence(_, _)
IsSubsequence(a, b) ==
    IF a = <<>> THEN TRUE
    ELSE IF b = <<>> THEN FALSE
    ELSE IF Head(a) = Head(b) THEN IsSubsequence(Tail(a), Tail(b))
    ELSE IsSubsequence(a, Tail(b))

\* The two-voice branch of openai or gemini has returned its track.
TwoVoiceDone ==
    /\ tx_pc = "done"
    /\ tx_provider \in {"openai", "gemini"}
    /\ \E i \in 1..Len(tx_turns) : tx_turns[i].speaker = "Person1"

C19_OneSegmentPerTurn ==
    TwoVoiceDone => Len(tx_track) = Len(tx_turns)

\* The parts novelai should extract: the stripped, non-empty turns in order.
ExpectedParts(turns) ==
    SelectSeq(SegmentsInOrder(turns), LAMBDA part : part.text # <<>>)

\* C20: turn extraction gives the non-empty tagged sections in document
\* order, Person1 with the first voice and Person2 with the second; for
\* <Person1>A</Person1><Person2>B</Person2> it gives (A, voice), (B, voice2).
C20_PartsInDocumentOrder ==
    (tx_provider = "novelai" /\ tx_pc # "start") =>
        /\ tx_p1 = ExpectedParts(tx_turns)
        /\ tx_text = <<"<Person1>", "t1", "</Person1>",
                       "<Person2>", "t2", "</Person2>">>
               => tx_p1 = <<[text |-> <<"t1">>, voice |-> "voice"],
                            [text |-> <<"t2">>, voice |-> "voice2"]>>

\* Parts were extracted from a transcript that starts with Person2, has two
\* turns of the same speaker in a row and an empty turn.
C20_Witness ==
    /\ tx_provider = "novelai"
    /\ tx_pc = "synth"
    /\ Len(tx_turns) = 3
    /\ tx_turns[1].speaker = "Person2"
    /\ tx_turns[2].speaker = "Person2"
    /\ tx_turns[3].speaker = "Person1"
    /\ tx_turns[2].content = <<>>
    /\ Len(tx_p1) = 2

(***************************************************************************)
(* tts/providers/geminimulti.py: GeminiMultiTTS.split_turn_text            *)
(*                                                                         *)
(* The turn text is a sequence of characters; len() is the length of the   *)
(* sequence.                                                               *)
(***************************************************************************)

Terminators == {".", "!", "?"}
Whitespace == {" ", "\n"}

\* Last index of the match of [.!?]+(?:\s+|$) starting at index i, 0 when
\* none starts there: the whole run of terminators, then whitespace or the
\* end of the text.
TerminatorMatchEnd(s, i) ==
    IF s[i] \notin Terminators THEN 0
    ELSE LET p == FirstNotIn(s, i, Terminators)
         IN  IF p > Len(s) THEN Len(s)
             ELSE IF s[p] \in Whitespace
                  THEN FirstNotIn(s, p, Whitespace) - 1
                  ELSE 0

\* re.split(r'([.!?]+(?:\s+|$))', text): the pieces between the matches and
\* the matches themselves, g being where the piece under way began.
RECURSIVE SplitAtTerminators(_, _, _)
SplitAtTerminators(s, i, g) ==
    IF i > Len(s) THEN <<SubSeq(s, g, Len(s))>>
    ELSE LET e == TerminatorMatchEnd(s, i)
         IN  IF e = 0 THEN SplitAtTerminators(s, i + 1, g)
             ELSE <<SubSeq(s, g, i - 1), SubSeq(s, i, e)>>
                      \o SplitAtTerminators(s, e + 1, e + 1)

\* [s for s in sentences if s]
NonEmptyPieces(pieces) == SelectSeq(pieces, LAMBDA x : x # <<>>)

\* str.split(): the runs of characters other than whitespace, from i on.
RECURSIVE SplitWords(_, _)
SplitWords(s, i) ==
    LET b == FirstNotIn(s, i, Whitespace)
        e == FirstIn(s, b, Whitespace)
    IN  IF b > Len(s) THEN <<>>
        ELSE IF e = 0 THEN <<SubSeq(s, b, Len(s))>>
        ELSE <<SubSeq(s, b, e - 1)>> \o SplitWords(s, e)

\* geminimulti.py 116-122: the loop over the words of a sentence that is too
\* long, from word k on; the value is chunks and temp_chunk after the loop.
RECURSIVE PackWords(_, _, _, _, _)
PackWords(words, k, temp_chunk, chunks, max_chars) ==
    IF k > Len(words) THEN [chunks |-> chunks, temp_chunk |-> temp_chunk]
    ELSE IF Len(temp_chunk) + Len(words[k]) + 1 > max_chars
         THEN PackWords(words, k + 1, words[k],
                        Append(chunks, Strip(temp_chunk)), max_chars)
         ELSE PackWords(words, k + 1,
                        IF temp_chunk # <<>>
                        THEN temp_chunk \o <<" ">> \o words[k]
                        ELSE words[k],
                        chunks, max_chars)

\* Longest turn text enumerated, and largest max_chars.
MaxTurnChars == 7
MaxBudget == 3

TurnTexts == UNION {[1..n -> {"a", " ", "."}] : n \in 0..MaxTurnChars}

SplitInit ==
    /\ st_text \in TurnTexts
    /\ st_max_chars \in 1..MaxBudget
    /\ st_sentences = <<>>
    /\ st_i = 0
    /\ st_current = <<>>
    /\ st_chunks = <<>>
    /\ st_pc = "start"
    /\ CleanIdle
    /\ ChunkIdle
    /\ MergeIdle
    /\ SynthIdle
    /\ LongIdle
    /\ ContentIdle
    /\ TurnIdle
    /\ MonoIdle
    /\ FailIdle

\* geminimulti.py 96-97: if len(text) <= max_chars: return [text]
SplitTurnWhole ==
    /\ st_pc = "start"
    /\ Len(st_text) <= st_max_chars
    /\ st_chunks' = <<st_text>>
    /\ st_pc' = "done"
    /\ UNCHANGED <<st_text, st_max_chars, st_sentences, st_i, st_current>>
    /\ UNCHANGED <<cm_vars, ct_vars, ma_vars, sy_vars, lf_vars, cc_vars,
                   tx_vars, mo_vars, fo_vars>>

\* geminimulti.py 99-103: split into sentences and separators.
SplitTurnSentences ==
    /\ st_pc = "start"
    /\ Len(st_text) > st_max_chars
    /\ st_sentences' = NonEmptyPieces(SplitAtTerminators(st_text, 1, 1))
    /\ st_i' = 1
    /\ st_current' = <<>>
    /\ st_chunks' = <<>>
    /\ st_pc' = "loop"
    /\ UNCHANGED <<st_text, st_max_chars>>
    /\ UNCHANGED <<cm_vars, ct_vars, ma_vars, sy_vars, lf_vars, cc_vars,
                   tx_vars, mo_vars, fo_vars>>

\* geminimulti.py 104-125: one iteration of "for i in range(0, len, 2)".
SplitTurnSentence ==
    /\ st_pc = "loop"
    /\ st_i <= Len(st_sentences)
    /\ LET sentence == st_sentences[st_i]
           separator == IF st_i + 1 <= Len(st_sentences)
                        THEN st_sentences[st_i + 1] ELSE <<>>
           complete_sentence == sentence \o separator
       IN  IF Len(st_current) + Len(complete_sentence) > st_max_chars
           THEN IF st_current # <<>>
                THEN /\ st_chunks' = Append(st_chunks, Strip(st_current))
                     /\ st_current' = complete_sentence
                ELSE LET packed == PackWords(SplitWords(complete_sentence, 1),
                                             1, <<>>, st_chunks, st_max_chars)
                     IN  /\ st_chunks' = packed.chunks
                         /\ st_current' = packed.temp_chunk
           ELSE /\ st_current' = st_current \o complete_sentence
                /\ UNCHANGED st_chunks
    /\ st_i' = st_i + 2
    /\ UNCHANGED <<st_text, st_max_chars, st_sentences, st_pc>>
    /\ UNCHANGED <<cm_vars, ct_vars, ma_vars, sy_vars, lf_vars, cc_vars,
                   tx_vars, mo_vars, fo_vars>>

\* geminimulti.py 127-130: add the chunk under way, return chunks.
SplitTurnReturn ==
    /\ st_pc = "loop"
    /\ st_i > Len(st_sentences)
    /\ st_chunks' = IF st_current # <<>>
                    THEN Append(st_chunks, Strip(st_current))
                    ELSE st_chunks
    /\ st_pc' = "done"
    /\ UNCHANGED <<st_text, st_max_chars, st_sentences, st_i, st_current>>
    /\ UNCHANGED <<cm_vars, ct_vars, ma_vars, sy_vars, lf_vars, cc_vars,
                   tx_vars, mo_vars, fo_vars>>

SplitNext ==
    \/ SplitTurnWhole
    \/ SplitTurnSentences
    \/ SplitTurnSentence
    \/ SplitTurnReturn

SpecSplit == SplitInit /\ [][SplitNext]_vars

\* C23: when no word of the turn text is longer than max_chars, every
\* fragment returned has at most max_chars characters, wherever in the turn
\* a sentence longer than max_chars stands.
C23_FragmentsWithinMaxChars ==
    (/\ st_pc = "done"
     /\ \A w \in Range(SplitWords(st_text, 1)) : Len(w) <= st_max_chars)
        => \A k \in 1..Len(st_chunks) : Len(st_chunks[k]) <= st_max_chars

\* C30: for a turn text that is not empty and max_chars > 0 no fragment
\* returned is empty.
C30_NoEmptyFragment ==
    (st_pc = "done" /\ st_text # <<>> /\ st_max_chars > 0)
        => \A k \in 1..Len(st_chunks) : st_chunks[k] # <<>>

(***************************************************************************)
(* text_to_speech.py: TextToSpeech.convert_to_speech with a multi-speaker  *)
(* provider, and tts/providers/geminimulti.py: split_qa and generate_audio *)
(* on a transcript of the monologue format.                                *)
(*                                                                         *)
(* The transcript is a list of closed turns and holds at least one         *)
(* <Speaker> turn; it is short enough for chunk_text to return it as one   *)
(* chunk and for split_turn_text to return each turn as one fragment.      *)
(* A turn of the markup is the text spoken and the speaker it is given.    *)
(***************************************************************************)

\* text_to_speech.py 95-96: default_voices question and answer.
QuestionVoice == "question"
AnswerVoice == "answer"

\* A second-voice argument that does not look at the format.
SecondVoiceAlways(format_type) == AnswerVoice

\* text_to_speech.py 102: voice2 if self.format_type == "conversation" else
\* None
SecondVoice(format_type) ==
    IF format_type = "conversation" THEN AnswerVoice ELSE "None"

\* geminimulti.py 327-332: the common SSML tags and Speaker.
SupportedTtsTags == {"lang", "p", "phoneme", "s", "sub", "Speaker"}

\* The cleaning of the provider base class, called at geminimulti.py 232:
\* tags other than the supported ones and the two Person tags are deleted,
\* the text is stripped.
clean_tss_markup(input_text, supported_tags) ==
    Strip(SelectSeq(input_text,
                    LAMBDA t : t \in TagTokens =>
                        TagWord(t) \in supported_tags
                                           \cup {"Person1", "Person2"}))

\* geminimulti.py 255 for a transcript within the byte budget: the tagged
\* sections, rebuilt, in one chunk.
RECURSIVE JoinRebuilt(_)
JoinRebuilt(sections) ==
    IF sections = <<>> THEN <<>>
    ELSE (IF TagMatches(Head(sections)) THEN RebuiltSection(Head(sections))
          ELSE <<>>) \o JoinRebuilt(Tail(sections))

\* geminimulti.py 232-240: split_qa on a chunk that holds <Speaker>.
split_qa(input_text, supported_tags) ==
    LET cleaned == clean_tss_markup(input_text, supported_tags)
        matches == FindAllTag(cleaned, 1, "Speaker")
    IN  [k \in 1..Len(matches) |-> <<Strip(matches[k]), <<>>>>]

\* Largest number of turns in a monologue transcript.
MaxMonoTurns == 3

MonoTurnTexts ==
    {<<OpenTag(sp)>> \o c \o <<CloseTag(sp)>> :
        sp \in {"Speaker", "Person1", "Person2"},
        c \in {<<"a">>, <<" ", "a", "<b>", "e_acute", "</b>", "\n">>, <<>>}}

RECURSIVE MonoTranscripts(_)
MonoTranscripts(n) ==
    IF n = 0 THEN {<<>>}
    ELSE LET shorter == MonoTranscripts(n - 1)
         IN  shorter \cup {t \o turn : t \in shorter, turn \in MonoTurnTexts}

MonoInit ==
    /\ mo_format_type \in {"conversation", "monologue"}
    /\ mo_text \in {t \in MonoTranscripts(MaxMonoTurns) :
                       "<Speaker>" \in Range(t)}
    /\ mo_voice2 = ""
    /\ mo_pairs = <<>>
    /\ mo_j = 0
    /\ mo_turns = <<>>
    /\ mo_pc = "start"
    /\ CleanIdle
    /\ ChunkIdle
    /\ MergeIdle
    /\ SynthIdle
    /\ LongIdle
    /\ ContentIdle
    /\ TurnIdle
    /\ SplitIdle
    /\ FailIdle

\* text_to_speech.py 92-105 and geminimulti.py 255-266: convert_to_speech
\* calls generate_audio, which takes the chunk and its pairs.
MonoGenerateAudio ==
    /\ mo_pc = "start"
    /\ mo_voice2' = SecondVoice(mo_format_type)
    /\ mo_pairs' = split_qa(JoinRebuilt(SplitSections(mo_text, 1, 1)),
                            SupportedTtsTags)
    /\ mo_j' = 1
    /\ mo_turns' = <<>>
    /\ mo_pc' = "pairs"
    /\ UNCHANGED <<mo_format_type, mo_text>>
    /\ UNCHANGED <<cm_vars, ct_vars, ma_vars, sy_vars, lf_vars, cc_vars,
                   tx_vars, st_vars, fo_vars>>

\* geminimulti.py 270-291: the turns of one pair; the second part only when
\* it is not empty.
MonoAddPair ==
    /\ mo_pc = "pairs"
    /\ mo_j <= Len(mo_pairs)
    /\ LET first_part == mo_pairs[mo_j][1]
           second_part == mo_pairs[mo_j][2]
           f_turn == [text |-> Strip(first_part), speaker |-> QuestionVoice]
           s_turn == [text |-> Strip(second_part), speaker |-> mo_voice2]
       IN  mo_turns' = IF second_part # <<>>
                       THEN mo_turns \o <<f_turn, s_turn>>
                       ELSE Append(mo_turns, f_turn)
    /\ mo_j' = mo_j + 1
    /\ UNCHANGED <<mo_format_type, mo_text, mo_voice2, mo_pairs, mo_pc>>
    /\ UNCHANGED <<cm_vars, ct_vars, ma_vars, sy_vars, lf_vars, cc_vars,
                   tx_vars, st_vars, fo_vars>>

\* geminimulti.py 293-321: the markup is sent to the service.
MonoSynthesize ==
    /\ mo_pc = "pairs"
    /\ mo_j > Len(mo_pairs)
    /\ mo_pc' = "done"
    /\ UNCHANGED <<mo_format_type, mo_text, mo_voice2, mo_pairs, mo_j,
                   mo_turns>>
    /\ UNCHANGED <<cm_vars, ct_vars, ma_vars, sy_vars, lf_vars, cc_vars,
                   tx_vars, st_vars, fo_vars>>

MonoNext == MonoGenerateAudio \/ MonoAddPair \/ MonoSynthesize

SpecMono == MonoInit /\ [][MonoNext]_vars

\* The contents of the <Speaker> turns of a transcript, in order, each
\* without its unsupported tags and stripped.
SpeakerContents(text) ==
    LET turns == SelectSeq(TaggedSections(text, 1, TRUE),
                           LAMBDA t : t[1] = "<Speaker>")
    IN  [k \in 1..Len(turns) |->
            Strip(SelectSeq(SubSeq(turns[k], 2, Len(turns[k]) - 1),
                            LAMBDA t : t \notin {"<b>", "</b>"}))]

MonologueTags == <<"Speaker">>

\* monologue.py 45-55: the Person tags become Speaker tags.
ToSpeakerTag(tok) ==
    IF tok \in {"<Person1>", "<Person2>"} THEN "<Speaker>"
    ELSE IF tok \in {"</Person1>", "</Person2>"} THEN "</Speaker>"
    ELSE tok

\* monologue.py 58-59: re.sub of \[.*?\] or \(.*?\) by nothing; the dot
\* does not match a newline.
RECURSIVE RemoveEnclosed(_, _, _, _)
RemoveEnclosed(s, i, open, close) ==
    IF i > Len(s) THEN <<>>
    ELSE LET j == FirstIn(s, i + 1, {close, "\n"})
         IN  IF s[i] = open /\ j # 0 /\ s[j] = close
             THEN RemoveEnclosed(s, j + 1, open, close)
             ELSE <<s[i]>> \o RemoveEnclosed(s, i + 1, open, close)

\* monologue.py 35-61
convert_conversation_tags(text) ==
    LET speaker == [k \in 1..Len(text) |-> ToSpeakerTag(text[k])]
    IN  RemoveEnclosed(RemoveEnclosed(speaker, 1, "[", "]"), 1, "(", ")")

\* ' '.join(match.strip() for match in matches)
RECURSIVE JoinStripped(_)
JoinStripped(matches) ==
    IF matches = <<>> THEN <<>>
    ELSE IF Len(matches) = 1 THEN Strip(matches[1])
    ELSE Strip(matches[1]) \o <<" ">> \o JoinStripped(Tail(matches))

\* monologue.py 63-83
combine_speaker_tags(text) ==
    LET matches == FindAllTag(text, 1, "Speaker")
    IN  IF matches = <<>> THEN text
        ELSE <<"<Speaker>">> \o JoinStripped(matches) \o <<"</Speaker>">>

\* base.py 146-161: the number of statements of _fix_malformed_tags that
\* assign to text or return, and the effect of statement j on text.
FixStatements(tags) == 3 * Len(tags) + 2

FixStatement(text, tags, j) ==
    LET n == Len(tags)
        m == j - (n + 1)
    IN  IF j <= n THEN MergeSplitTurns(text, 1, tags[j])
        ELSE IF j = n + 1 THEN CollapseSpaces(text, 1)
        ELSE IF j <= 3 * n + 1
             THEN IF m % 2 = 1
                  THEN SpaceAfterClose(text, 1, tags[(m + 1) \div 2])
                  ELSE SpaceBeforeOpen(text, 1, tags[m \div 2])
        ELSE Strip(text)

\* The variable text of _fix_malformed_tags after its first k statements.
RECURSIVE FixAfter(_, _, _)
FixAfter(text, tags, k) ==
    IF k = 0 THEN text
    ELSE FixStatement(FixAfter(text, tags, k - 1), tags, k)

\* The handlers of the three passes, as written: return text.
FailedPassReturns(given, text_at_error) == text_at_error

PassLog(pass, given, returned, failed) ==
    [pass |-> pass, given |-> given, returned |-> returned, failed |-> failed]

TemplateTags(template) ==
    IF template = "monologue" THEN MonologueTags ELSE ConversationTags

\* A monologue answer with stage directions.
BracketScenario ==
    <<"<Person1>", "[", "a", "]", "a", "</Person1>", "\n",
      "<Person2>", "(", "a", ")", "a", "</Person2>">>

FailInit ==
    /\ fo_template \in {"conversation", "monologue"}
    /\ fo_input \in CleanScenarios
                        \cup (IF fo_template = "monologue"
                              THEN {BracketScenario} ELSE {})
    /\ fo_text = fo_input
    /\ fo_log = <<>>
    /\ fo_pc = IF fo_template = "monologue" THEN "convert" ELSE "scratchpad"
    /\ CleanIdle
    /\ ChunkIdle
    /\ MergeIdle
    /\ SynthIdle
    /\ LongIdle
    /\ ContentIdle
    /\ TurnIdle
    /\ SplitIdle
    /\ MonoIdle

\* monologue.py 26: text = self._convert_conversation_tags(text)
ConvertConversationTags ==
    /\ fo_pc = "convert"
    /\ fo_text' = convert_conversation_tags(fo_text)
    /\ fo_log' = Append(fo_log, PassLog("convert", fo_text, fo_text', FALSE))
    /\ fo_pc' = "combine"
    /\ UNCHANGED <<fo_template, fo_input>>
    /\ UNCHANGED <<cm_vars, ct_vars, ma_vars, sy_vars, lf_vars, cc_vars,
                   tx_vars, st_vars, mo_vars>>

\* monologue.py 26 and 35-61: a statement of the pass raises; the pass has
\* no handler and neither has clean_markup.
ConvertConversationTagsRaises ==
    /\ fo_pc = "convert"
    /\ fo_pc' = "raised"
    /\ UNCHANGED <<fo_template, fo_input, fo_text, fo_log>>
    /\ UNCHANGED <<cm_vars, ct_vars, ma_vars, sy_vars, lf_vars, cc_vars,
                   tx_vars, st_vars, mo_vars>>

\* monologue.py 29: text = self._combine_speaker_tags(text)
CombineSpeakerTags ==
    /\ fo_pc = "combine"
    /\ fo_text' = combine_speaker_tags(fo_text)
    /\ fo_log' = Append(fo_log, PassLog("combine", fo_text, fo_text', FALSE))
    /\ fo_pc' = "scratchpad"
    /\ UNCHANGED <<fo_template, fo_input>>
    /\ UNCHANGED <<cm_vars, ct_vars, ma_vars, sy_vars, lf_vars, cc_vars,
                   tx_vars, st_vars, mo_vars>>

\* monologue.py 29 and 63-83: a statement of the pass raises, no handler.
CombineSpeakerTagsRaises ==
    /\ fo_pc = "combine"
    /\ fo_pc' = "raised"
    /\ UNCHANGED <<fo_template, fo_input, fo_text, fo_log>>
    /\ UNCHANGED <<cm_vars, ct_vars, ma_vars, sy_vars, lf_vars, cc_vars,
                   tx_vars, st_vars, mo_vars>>

\* base.py 53 and 63-89: _clean_scratchpad runs to its return.
CleanScratchpad ==
    /\ fo_pc = "scratchpad"
    /\ fo_text' = clean_scratchpad(fo_text, TemplateTags(fo_template))
    /\ fo_log' = Append(fo_log,
                        PassLog("scratchpad", fo_text, fo_text', FALSE))
    /\ fo_pc' = "tags"
    /\ UNCHANGED <<fo_template, fo_input>>
    /\ UNCHANGED <<cm_vars, ct_vars, ma_vars, sy_vars, lf_vars, cc_vars,
                   tx_vars, st_vars, mo_vars>>

\* base.py 90-93: a statement of _clean_scratchpad raises; the results so
\* far are in cleaned_text and the handler returns text.
CleanScratchpadFails ==
    /\ fo_pc = "scratchpad"
    /\ fo_text' = FailedPassReturns(fo_text, fo_text)
    /\ fo_log' = Append(fo_log,
                        PassLog("scratchpad", fo_text, fo_text', TRUE))
    /\ fo_pc' = "tags"
    /\ UNCHANGED <<fo_template, fo_input>>
    /\ UNCHANGED <<cm_vars, ct_vars, ma_vars, sy_vars, lf_vars, cc_vars,
                   tx_vars, st_vars, mo_vars>>

\* base.py 56 and 95-129: _clean_markup_tags runs to its return.
CleanMarkupTags ==
    /\ fo_pc = "tags"
    /\ fo_text' = clean_markup_tags(fo_text, TemplateTags(fo_template))
    /\ fo_log' = Append(fo_log, PassLog("tags", fo_text, fo_text', FALSE))
    /\ fo_pc' = "fix"
    /\ UNCHANGED <<fo_template, fo_input>>
    /\ UNCHANGED <<cm_vars, ct_vars, ma_vars, sy_vars, lf_vars, cc_vars,
                   tx_vars, st_vars, mo_vars>>

\* base.py 130-133: a statement of _clean_markup_tags raises; the results
\* so far are in cleaned_text and the handler returns text.
CleanMarkupTagsFails ==
    /\ fo_pc = "tags"
    /\ fo_text' = FailedPassReturns(fo_text, fo_text)
    /\ fo_log' = Append(fo_log, PassLog("tags", fo_text, fo_text', TRUE))
    /\ fo_pc' = "fix"
    /\ UNCHANGED <<fo_template, fo_input>>
    /\ UNCHANGED <<cm_vars, ct_vars, ma_vars, sy_vars, lf_vars, cc_vars,
                   tx_vars, st_vars, mo_vars>>

\* base.py 59-61 and 144-161: _fix_malformed_tags runs to its return.
FixMalformedTags ==
    /\ fo_pc = "fix"
    /\ fo_text' = FixAfter(fo_text, TemplateTags(fo_template),
                           FixStatements(TemplateTags(fo_template)))
    /\ fo_log' = Append(fo_log, PassLog("fix", fo_text, fo_text', FALSE))
    /\ fo_pc' = "done"
    /\ UNCHANGED <<fo_template, fo_input>>
    /\ UNCHANGED <<cm_vars, ct_vars, ma_vars, sy_vars, lf_vars, cc_vars,
                   tx_vars, st_vars, mo_vars>>

\* base.py 146-166: statement k + 1 of _fix_malformed_tags raises; the
\* first k statements have assigned their results to text itself, and the
\* handler returns text.
FixMalformedTagsFails ==
    /\ fo_pc = "fix"
    /\ \E k \in 0..(FixStatements(TemplateTags(fo_template)) - 1) :
           fo_text' = FailedPassReturns(
                          fo_text,
                          FixAfter(fo_text, TemplateTags(fo_template), k))
    /\ fo_log' = Append(fo_log, PassLog("fix", fo_text, fo_text', TRUE))
    /\ fo_pc' = "done"
    /\ UNCHANGED <<fo_template, fo_input>>
    /\ UNCHANGED <<cm_vars, ct_vars, ma_vars, sy_vars, lf_vars, cc_vars,
                   tx_vars, st_vars, mo_vars>>

FailNext ==
    \/ ConvertConversationTags
    \/ ConvertConversationTagsRaises
    \/ CombineSpeakerTags
    \/ CombineSpeakerTagsRaises
    \/ CleanScratchpad
    \/ CleanScratchpadFails
    \/ CleanMarkupTags
    \/ CleanMarkupTagsFails
    \/ FixMalformedTags
    \/ FixMalformedTagsFails

SpecFail == FailInit /\ [][FailNext]_vars

\* C21: a pass in which an error was raised returns exactly the text it was
\* given, and clean_markup never raises, for the conversation template and
\* for the monologue template.
C21_PassesFailOpen ==
    /\ fo_pc # "raised"
    /\ \A k \in 1..Len(fo_log) :
           fo_log[k].failed => fo_log[k].returned = fo_log[k].given

\* The statements of _fix_malformed_tags, run one after the other, are the
\* pass as a whole; without any error the passes give clean_markup.
FixStatementsAgree ==
    (fo_pc = "done" /\ \A k \in 1..Len(fo_log) : ~fo_log[k].failed
                    /\ fo_template = "conversation")
        => fo_text = clean_markup(fo_input, ConversationTags)

====
